---- MODULE Spec2Model ----
\* A model of the CSCP client of bitfocus/node-calrec-cscp:
\*   src/src/protocol.ts  - packet codec (buildPacket, parsePacket)
\*   src/src/client.ts    - CalrecClient: connection state machine, stream
\*                          reassembly, request correlation, command scheduler
EXTENDS Integers, Sequences, FiniteSets, Bags, TLC

\* ---------------------------------------------------------------------------
\* Protocol constants (src/src/protocol.ts)
\* ---------------------------------------------------------------------------
SOH == 241
DEVICE_ID_CONTROLLER == 255
DEVICE_ID_CALREC == 0
ACK == 4
NAK == 5

READ_FADER_LEVEL == 0
READ_CONSOLE_INFO == 8
WRITE_FADER_LEVEL == 32768
WRITE_FADER_CUT == 32769

\* ---------------------------------------------------------------------------
\* Bounds of the model
\* ---------------------------------------------------------------------------
\* longest payload handed to the codec
MaxPayloadLen == 3
\* longest raw buffer handed to parsePacket
MaxBufLen == 6

\* ---------------------------------------------------------------------------
\* Byte helpers
\* ---------------------------------------------------------------------------
RECURSIVE SumBytes(_)
SumBytes(s) == IF s = <<>> THEN 0 ELSE (Head(s) + SumBytes(Tail(s))) % 256

\* Buffer.slice(from, to) with 0-based from (inclusive) and to (exclusive)
Slice(s, from, to) ==
    IF to <= from THEN <<>> ELSE [i \in 1..(to - from) |-> s[from + i]]

\* sequences over S of length 0..n
SeqsUpTo(S, n) == UNION {[1..k -> S] : k \in 0..n}

\* calculateChecksum as the one's complement of the 8-bit sum
calculateChecksum_OnesComplement(buffer) == 255 - SumBytes(buffer)

\* calculateChecksum: two's complement of the 8-bit sum, (~sum + 1) & 0xff
calculateChecksum(buffer) == (256 - SumBytes(buffer)) % 256

\* buildPacket(command, data): SOH, BC, DEV(=0), CMD_MSB, CMD_LSB, DATA, CS
buildPacket_ControllerDevice(command, data) ==
    LET cmdMsb == (command \div 256) % 256
        cmdLsb == command % 256
        cmdAndData == <<cmdMsb, cmdLsb>> \o data
    IN  <<SOH, (2 + Len(data)) % 256, DEVICE_ID_CONTROLLER>> \o cmdAndData
            \o <<calculateChecksum(cmdAndData)>>

\* buildPacket that writes the command low byte first
buildPacket_LsbFirst(command, data) ==
    LET cmdAndData == <<command % 256, (command \div 256) % 256>> \o data
    IN  <<SOH, (2 + Len(data)) % 256, DEVICE_ID_CALREC>> \o cmdAndData
            \o <<calculateChecksum(cmdAndData)>>

buildPacket(command, data) ==
    LET byteCount == (2 + Len(data)) % 256
        cmdMsb == (command \div 256) % 256
        cmdLsb == command % 256
        cmdAndData == <<cmdMsb, cmdLsb>> \o data
        checksum == calculateChecksum(cmdAndData)
        header == <<SOH, byteCount, DEVICE_ID_CALREC>>
    IN  header \o cmdAndData \o <<checksum>>

\* parsePacket(buffer): buffer is one message without its SOH.
\* Returns [ok |-> TRUE, command, data] or [ok |-> FALSE, error, expected, actual].
ParseError(kind, expected, actual) ==
    [ok |-> FALSE, error |-> kind, expected |-> expected, actual |-> actual]

parsePacket_NoDeviceCheck(buffer) ==
    IF Len(buffer) < 5 THEN ParseError("Packet too short", 5, Len(buffer))
    ELSE IF Len(buffer) # buffer[1] + 3
         THEN ParseError("Byte count mismatch", buffer[1] + 3, Len(buffer))
    ELSE LET cmdAndData == Slice(buffer, 2, Len(buffer) - 1)
         IN  IF buffer[Len(buffer)] # calculateChecksum(cmdAndData)
             THEN ParseError("Checksum error", calculateChecksum(cmdAndData),
                             buffer[Len(buffer)])
             ELSE [ok |-> TRUE,
                   command |-> cmdAndData[1] * 256 + cmdAndData[2],
                   data |-> Slice(cmdAndData, 2, Len(cmdAndData))]

parsePacket(buffer) ==
    IF Len(buffer) < 5 THEN ParseError("Packet too short", 5, Len(buffer))
    ELSE LET byteCount == buffer[1]
             device == buffer[2]
         IN
         IF Len(buffer) # byteCount + 3
         THEN ParseError("Byte count mismatch", byteCount + 3, Len(buffer))
         ELSE IF device # DEVICE_ID_CONTROLLER
         THEN ParseError("Packet for incorrect device", DEVICE_ID_CONTROLLER, device)
         ELSE LET receivedChecksum == buffer[Len(buffer)]
                  cmdAndData == Slice(buffer, 2, Len(buffer) - 1)
                  calculatedChecksum == calculateChecksum(cmdAndData)
              IN  IF receivedChecksum # calculatedChecksum
                  THEN ParseError("Checksum error", calculatedChecksum, receivedChecksum)
                  ELSE [ok |-> TRUE,
                        command |-> cmdAndData[1] * 256 + cmdAndData[2],
                        data |-> Slice(cmdAndData, 2, Len(cmdAndData))]

\* createIncomingPacket of the protocol tests: a message as the console sends
\* it (device id 255), without SOH.
createIncomingPacket(command, data) ==
    LET byteCount == (2 + Len(data)) % 256
        cmdAndData == <<(command \div 256) % 256, command % 256>> \o data
    IN  <<byteCount, DEVICE_ID_CONTROLLER>> \o cmdAndData
            \o <<calculateChecksum(cmdAndData)>>


\* ---------------------------------------------------------------------------
\* Configuration of the modelled client instance (constructor options and
\* settings), in clock ticks
\* ---------------------------------------------------------------------------
\* settings.globalCommandRateMs
globalCommandRateMs == 2
\* settings.faderLevelRateMs
faderLevelRateMs == 3
\* settings.commandResponseTimeoutMs
commandResponseTimeoutMs == 3
\* options.reconnectInterval
reconnectInterval == 2
\* options.maxFaderCount and options.maxMainCount
maxFaderCount == 2
maxMainCount == 3
\* delay of the console-info request armed by connect(): setTimeout(..., 50)
InitDelay == 1

\* number of commands sendCommand accepts in one behaviour
MaxCalls == 2
\* calls made during the one connection of SpecSession
MaxSessionCalls == 3
\* latest a timer callback runs after its deadline
MaxLate == 1

\* Times are kept as offsets from the current instant: Date.now() is the
\* origin, a stamp taken in the past is negative, a timer's deadline is the
\* time left.  When the clock advances every stored time moves back by one.
now == 0
\* The code only compares the age of a stamp with an interval: a stamp is kept
\* no older than the age at which that comparison is settled.
LongAgoCommand == -globalCommandRateMs
LongAgoFader == -(faderLevelRateMs + 1)
NoTimer == -1000

VARIABLES
    connectionState,     \* this.state.connectionState
    consoleInfo,         \* this.state.consoleInfo: <<>> for null, else <<info>>
    socket,              \* this.socket: "null", or the state of the net.Socket
    closePending,        \* a destroyed socket whose 'close' event is undelivered
    autoReconnect,       \* this.options.autoReconnect
    reconnectTimeout,    \* deadline of this.reconnectTimeout, or NoTimer
    dataBuffer,          \* this.dataBuffer
    commandQueue,        \* this.commandQueue (general lane), call ids
    faderLevelQueue,     \* this.faderLevelQueue (fader-level lane), call ids
    isProcessing,        \* this.isProcessing
    lastFaderLevelSent,  \* this.lastFaderLevelSent
    lastCommandSent,     \* this.lastCommandSent
    requestMap,          \* this.requestMap, in insertion order
    responseTimers,      \* armed handleCommandTimeout timers
    wakeTimers,          \* armed setTimeout(() => processCommandQueue()) timers
    initTimers,          \* armed console-info timers of connect()
    calls,               \* the promises of the commands sendCommand accepted
    written,             \* history of socket.write calls
    lastWriteAt,         \* time of the last socket.write
    lastFaderWriteAt,    \* time of the last socket.write of a fader-lane command
    emitted,             \* connection events emitted by the last step, in order
    result,              \* what the public method run by the last step reported
    codecIn,             \* input handed to the codec
    codecOut             \* result of the codec

vars == <<connectionState, consoleInfo, socket, closePending, autoReconnect,
          reconnectTimeout, dataBuffer, commandQueue, faderLevelQueue,
          isProcessing, lastFaderLevelSent, lastCommandSent, requestMap,
          responseTimers, wakeTimers, initTimers, calls, written, lastWriteAt,
          lastFaderWriteAt, emitted, result, codecIn, codecOut>>

codecVars == <<codecIn, codecOut>>

\* ---------------------------------------------------------------------------
\* Map<string, {resolve, reject}> kept as a sequence in insertion order
\* ---------------------------------------------------------------------------
MapHas(m, k) == \E i \in 1..Len(m) : m[i].key = k
MapIndex(m, k) == CHOOSE i \in 1..Len(m) : m[i].key = k
MapGet(m, k) == m[MapIndex(m, k)].call
MapSet(m, k, c) ==
    IF MapHas(m, k) THEN [m EXCEPT ![MapIndex(m, k)].call = c]
    ELSE Append(m, [key |-> k, call |-> c])
MapDelete(m, k) == SelectSeq(m, LAMBDA e : e.key # k)

\* A promise settles once: resolve/reject of a settled promise is a no-op.
Settle(cs, c, status, value) ==
    IF cs[c].status = "pending"
    THEN [cs EXCEPT ![c].status = status, ![c].value = value]
    ELSE cs

\* history: a frame or NAK of the console was correlated to call c
Answered(cs, c) == [cs EXCEPT ![c].answered = TRUE]

\* ---------------------------------------------------------------------------
\* What a step reports: the connection events it emits ('connectionStateChange',
\* 'connect', 'ready', 'disconnect', the socket's 'error') and the outcome of
\* the public method it runs, when that method returns early or throws
\* ---------------------------------------------------------------------------
\* setState({connectionState}): the event is emitted when the state changed
setState(old, new) ==
    IF old # new THEN << <<"connectionStateChange", new>> >> ELSE <<>>

NoResult == <<>>
\* ensureConnected(): throw new Error("Client is not connected. Current state: ..")
NotConnected(state) == <<"Error", "Client is not connected", state>>
\* sendCommand: reject(new Error("No socket available."))
NoSocket == <<"Error", "No socket available">>
\* connect(): "Connect called but already connecting/connected", return
AlreadyConnecting == <<"return", "already connecting or connected">>
\* connect(): the promise of the socket connection rejects with the socket error
ConnectFailed == <<"Error", "socket error">>

\* the step emits no connection event and runs no public method that reports
Quiet == emitted' = <<>> /\ result' = NoResult

\* ---------------------------------------------------------------------------
\* processCommandQueue (client.ts 976-1073) on the scheduler record
\*   q = [cq, fq, lastF, lastC, wake, written, wAt, fAt]
\* ---------------------------------------------------------------------------
Rearm(q) ==
    IF Len(q.cq) > 0 \/ Len(q.fq) > 0
    THEN [q EXCEPT !.wake = @ (+) SetToBag({now + globalCommandRateMs})]
    ELSE q

FaderLaneReady_NoCooldown(q) == Len(q.fq) > 0

FaderLaneReady(q) ==
    Len(q.fq) > 0 /\ now - q.lastF > faderLevelRateMs

GlobalTooSoon_Never(q) == FALSE

GlobalTooSoon(q) == now - q.lastC < globalCommandRateMs

TakeGeneral_Lifo(q) == <<q.cq[Len(q.cq)], SubSeq(q.cq, 1, Len(q.cq) - 1)>>

TakeGeneral(q) == <<Head(q.cq), Tail(q.cq)>>

\* socket.write(packet): the history keeps the command and its lane, and the
\* time of the last write at all and of the last fader-lane write
Write(q, c, lane) ==
    [q EXCEPT !.written = Append(@, [call |-> c, lane |-> lane]),
              !.wAt = now,
              !.fAt = IF lane = "fader" THEN now ELSE @]

\* processCommandQueue that looks at the socket only, not at the state
processCommandQueue_AnyState(q, cs, sk, busy) ==
    IF busy THEN q
    ELSE IF sk = "null" THEN q
    ELSE IF GlobalTooSoon(q)
    THEN [q EXCEPT !.wake = @ (+)
             SetToBag({now + (globalCommandRateMs - (now - q.lastC))})]
    ELSE IF FaderLaneReady(q)
         THEN Rearm([Write(q, Head(q.fq), "fader") EXCEPT
                      !.fq = Tail(@),
                      !.lastF = now,
                      !.lastC = now])
         ELSE IF Len(q.cq) > 0
         THEN Rearm([Write(q, TakeGeneral(q)[1], "general") EXCEPT
                      !.cq = TakeGeneral(q)[2],
                      !.lastC = now])
         ELSE Rearm(q)

processCommandQueue(q, cs, sk, busy) ==
    IF busy \/ cs # "connected" THEN q
    ELSE IF sk = "null" THEN q
    ELSE IF GlobalTooSoon(q)
    THEN [q EXCEPT !.wake = @ (+)
             SetToBag({now + (globalCommandRateMs - (now - q.lastC))})]
    ELSE IF FaderLaneReady(q)
         THEN Rearm([Write(q, Head(q.fq), "fader") EXCEPT
                      !.fq = Tail(@),
                      !.lastF = now,
                      !.lastC = now])
         ELSE IF Len(q.cq) > 0
         THEN Rearm([Write(q, TakeGeneral(q)[1], "general") EXCEPT
                      !.cq = TakeGeneral(q)[2],
                      !.lastC = now])
         ELSE Rearm(q)

\* the scheduler record of the current state
Sched == [cq |-> commandQueue, fq |-> faderLevelQueue,
          lastF |-> lastFaderLevelSent, lastC |-> lastCommandSent,
          wake |-> wakeTimers, written |-> written,
          wAt |-> lastWriteAt, fAt |-> lastFaderWriteAt]

\* store a scheduler record back into the state
SetSched(q) ==
    /\ commandQueue' = q.cq
    /\ faderLevelQueue' = q.fq
    /\ lastFaderLevelSent' = q.lastF
    /\ lastCommandSent' = q.lastC
    /\ wakeTimers' = q.wake
    /\ written' = q.written
    /\ lastWriteAt' = q.wAt
    /\ lastFaderWriteAt' = q.fAt

schedVars == <<commandQueue, faderLevelQueue, lastFaderLevelSent,
               lastCommandSent, wakeTimers, written, lastWriteAt,
               lastFaderWriteAt>>

\* ---------------------------------------------------------------------------
\* Inbound path: parseResponseData, emitUnsolicitedEvent,
\* processIncomingMessage, handleData.  The handler state is the record
\*   S = [requestMap, calls, emitted, consoleInfo]
\* ---------------------------------------------------------------------------
READ_FADER_CUT == 1
READ_CONSOLE_NAME == 7
READ_AVAILABLE_AUX == 16
READ_AVAILABLE_MAINS == 20
READ_STEREO_IMAGE == 22

\* Buffer.readUInt16BE(offset), 0-based offset; callers check the length
ReadUInt16BE(data, offset) == data[offset + 1] * 256 + data[offset + 2]

\* hexToString of converters: the text of a fixed-width field, right-trimmed
RECURSIVE hexToString(_)
hexToString(bytes) ==
    IF bytes = <<>> THEN <<>>
    ELSE IF bytes[Len(bytes)] \in {0, 32}
         THEN hexToString(SubSeq(bytes, 1, Len(bytes) - 1))
         ELSE bytes

DefaultConsoleInfo ==
    [protocolVersion |-> 1, maxFaders |-> maxFaderCount,
     maxMains |-> maxMainCount, deskLabel |-> "Unknown"]

Returned(v) == [threw |-> FALSE, value |-> v]
\* RangeError of Buffer.readUInt16BE past the end of the buffer
Thrown == [threw |-> TRUE, value |-> "RangeError"]

\* bit b (counted from 0) of the byte v
BitSet(v, b) == (v \div (2 ^ b)) % 2 = 1

READ_AUX_SEND_ROUTING == 18

\* the READ_AUX_SEND_ROUTING case of parseResponseData (client.ts 601-624)
\* for options.maxFaderCount = maxFaders: route faderIndex is bit
\* faderIndex % 8 of data[faderIndex / 8], read from the first byte of the
\* payload on, and false beyond the bytes read
parseAuxSendRouting(data, maxFaders) ==
    LET bytesRead == IF Len(data) < (maxFaders + 7) \div 8
                     THEN Len(data) ELSE (maxFaders + 7) \div 8
    IN  [r \in 1..maxFaders |->
            LET faderIndex == r - 1
                byteIndex == faderIndex \div 8
                bitIndex == faderIndex % 8
            IN  /\ byteIndex < bytesRead
                /\ BitSet(data[byteIndex + 1], bitIndex)]

\* parseResponseData(command, data) (client.ts 424-643)
parseResponseData(command, data) ==
    LET readCmd == command % 32768 IN
    IF readCmd = READ_CONSOLE_INFO
    THEN IF Len(data) < 20 THEN Returned(DefaultConsoleInfo)
         ELSE Returned(
              [protocolVersion |-> ReadUInt16BE(data, 0),
               maxFaders |-> ReadUInt16BE(data, 2),
               maxMains |-> ReadUInt16BE(data, 4),
               deskLabel |-> IF hexToString(Slice(data, 12, 20)) = <<>>
                             THEN "Unknown"
                             ELSE hexToString(Slice(data, 12, 20))])
    ELSE IF readCmd = READ_FADER_LEVEL
    THEN IF Len(data) < 4 THEN Thrown ELSE Returned(ReadUInt16BE(data, 2))
    ELSE IF readCmd = READ_FADER_CUT
    THEN Returned(Len(data) >= 3 /\ data[3] = 0)
    ELSE IF readCmd = READ_STEREO_IMAGE
    THEN IF Len(data) >= 4
         THEN Returned([leftToBoth |-> data[3] # 0, rightToBoth |-> data[4] # 0])
         ELSE Returned([leftToBoth |-> FALSE, rightToBoth |-> FALSE])
    ELSE IF readCmd = READ_AUX_SEND_ROUTING
    THEN Returned(parseAuxSendRouting(data, maxFaderCount))
    ELSE Returned(data)

\* emitUnsolicitedEvent(command, data) (client.ts 645-816)
emitUnsolicitedEvent(S, command, data) ==
    LET isWriteCommand == command >= 32768
        baseCommand == command % 32768
    IN
    IF isWriteCommand
    THEN IF baseCommand = READ_FADER_LEVEL
         THEN IF Len(data) >= 4
              THEN [S EXCEPT !.emitted = Append(@,
                      [type |-> "faderLevelChange",
                       id |-> ReadUInt16BE(data, 0),
                       value |-> ReadUInt16BE(data, 2)])]
              ELSE S
         ELSE IF baseCommand = READ_FADER_CUT
         THEN IF Len(data) >= 3
              THEN [S EXCEPT !.emitted = Append(@,
                      [type |-> "faderCutChange",
                       id |-> ReadUInt16BE(data, 0),
                       value |-> (data[3] = 0)])]
              ELSE S
         ELSE [S EXCEPT !.emitted = Append(@,
                  [type |-> "unsolicitedMessage", command |-> command, data |-> data])]
    ELSE IF baseCommand = READ_CONSOLE_INFO
         THEN [S EXCEPT !.consoleInfo = <<parseResponseData(baseCommand, data).value>>]
         ELSE [S EXCEPT !.emitted = Append(@,
                  [type |-> "unsolicitedMessage", command |-> command, data |-> data])]

nonIdSpecificCommands ==
    {READ_CONSOLE_INFO, READ_CONSOLE_NAME, READ_AVAILABLE_AUX,
     READ_AVAILABLE_MAINS, READ_STEREO_IMAGE}

\* the key processIncomingMessage derives from a decoded frame
ReplyKey(command, data) ==
    LET readCmd == command % 32768
        isIdSpecificCommand == readCmd \notin nonIdSpecificCommands
    IN  IF isIdSpecificCommand /\ Len(data) >= 2
        THEN <<readCmd, ReadUInt16BE(data, 0)>>
        ELSE <<readCmd>>

\* processIncomingMessage(message) (client.ts 386-422).  The entry is deleted
\* before the payload is decoded; when decoding throws, resolve is never
\* called and the exception leaves handleData.
processIncomingMessage(S, command, data) ==
    LET requestKey == ReplyKey(command, data) IN
    IF MapHas(S.requestMap, requestKey)
    THEN LET pendingRequest == MapGet(S.requestMap, requestKey)
             r == parseResponseData(command, data)
         IN  IF r.threw
             THEN [S EXCEPT !.requestMap = MapDelete(@, requestKey),
                            !.calls = Answered(@, pendingRequest),
                            !.emitted = Append(@, [type |-> "uncaughtException"])]
             ELSE [S EXCEPT !.requestMap = MapDelete(@, requestKey),
                            !.calls = Settle(Answered(@, pendingRequest),
                                             pendingRequest, "resolved", r.value)]
    ELSE emitUnsolicitedEvent(S, command, data)

\* Buffer.indexOf(byte): 0-based index of the first occurrence, or -1
IndexOf(buf, byte) ==
    IF \E i \in 1..Len(buf) : buf[i] = byte
    THEN (CHOOSE i \in 1..Len(buf) :
              buf[i] = byte /\ \A j \in 1..(i - 1) : buf[j] # byte) - 1
    ELSE -1

Threw(S) == S.emitted # <<>> /\ S.emitted[Len(S.emitted)].type = "uncaughtException"

RECURSIVE PacketLoop(_, _)
\* the packet loop leaving handleData at the first frame that fails to decode
PacketLoop_StopAtError(buf, S) ==
    IF Len(buf) = 0 THEN [buf |-> buf, S |-> S]
    ELSE LET sohIndex == IndexOf(buf, SOH) IN
         IF sohIndex = -1 THEN [buf |-> buf, S |-> S]
         ELSE LET b == Slice(buf, sohIndex, Len(buf)) IN
              IF Len(b) < 4 THEN [buf |-> b, S |-> S]
              ELSE LET messageLength == b[2] + 4 IN
                   IF Len(b) < messageLength THEN [buf |-> b, S |-> S]
                   ELSE LET messageBufferForParser == Slice(b, 1, messageLength)
                            rest == Slice(b, messageLength, Len(b))
                            parsed == parsePacket(messageBufferForParser)
                        IN  IF ~parsed.ok
                            THEN [buf |-> rest,
                                  S |-> [S EXCEPT !.emitted = Append(@,
                                       [type |-> "error", error |-> parsed.error])]]
                            ELSE LET S1 == processIncomingMessage(S, parsed.command,
                                                                  parsed.data)
                                 IN  IF Threw(S1) THEN [buf |-> rest, S |-> S1]
                                     ELSE PacketLoop(rest, S1)

\* the packet loop of handleData (client.ts 327-383); returns [buf, S]
PacketLoop(buf, S) ==
    IF Len(buf) = 0 THEN [buf |-> buf, S |-> S]
    ELSE LET sohIndex == IndexOf(buf, SOH) IN
         IF sohIndex = -1 THEN [buf |-> buf, S |-> S]
         ELSE LET b == Slice(buf, sohIndex, Len(buf)) IN
              IF Len(b) < 4 THEN [buf |-> b, S |-> S]
              ELSE LET messageLength == b[2] + 4 IN
                   IF Len(b) < messageLength THEN [buf |-> b, S |-> S]
                   ELSE LET messageBufferForParser == Slice(b, 1, messageLength)
                            rest == Slice(b, messageLength, Len(b))
                            parsed == parsePacket(messageBufferForParser)
                        IN  IF ~parsed.ok
                            THEN PacketLoop(rest,
                                   [S EXCEPT !.emitted = Append(@,
                                       [type |-> "error", error |-> parsed.error])])
                            ELSE LET S1 == processIncomingMessage(S, parsed.command,
                                                                  parsed.data)
                                 IN  IF Threw(S1) THEN [buf |-> rest, S |-> S1]
                                     ELSE PacketLoop(rest, S1)

\* the texts of NakError, in the order parseNakError tests the bits
NakReasons ==
    <<"Command Not Supported", "Timeout", "Undefined Error", "Interface Error",
      "Byte Count Error", "Checksum Error", "Protocol Error">>

\* the reasons of bits 1..n of errorCode, lowest bit first
RECURSIVE NakReasonsUpTo(_, _)
NakReasonsUpTo(errorCode, n) ==
    IF n = 0 THEN <<>>
    ELSE NakReasonsUpTo(errorCode, n - 1)
         \o (IF BitSet(errorCode, n - 1) THEN <<NakReasons[n]>> ELSE <<>>)

\* parseNakError: the list the message joins with ", ", or "Unknown Error"
\* when no known bit is set
parseNakError(errorCode) ==
    LET errors == NakReasonsUpTo(errorCode, Len(NakReasons)) IN
    IF errors = <<>> THEN <<"Unknown Error">> ELSE errors

\* handleData(chunk) (client.ts 273-384); returns [buf, S]
handleData(buf0, S) ==
    LET buf == buf0 IN
    IF Len(buf) > 0 /\ buf[1] = ACK
    THEN [buf |-> Tail(buf), S |-> S]
    ELSE IF Len(buf) > 0 /\ buf[1] = NAK
    THEN IF Len(buf) > 1
         THEN LET errorCode == buf[2] IN
              IF Len(S.requestMap) > 0
              THEN [buf |-> Slice(buf, 2, Len(buf)),
                    S |-> [S EXCEPT
                       !.calls = Settle(Answered(@, S.requestMap[1].call),
                                        S.requestMap[1].call, "rejected",
                                        [error |-> "NAK",
                                         reasons |-> parseNakError(errorCode)]),
                       !.requestMap = Tail(@)]]
              ELSE [buf |-> Slice(buf, 2, Len(buf)), S |-> S]
         ELSE [buf |-> Tail(buf), S |-> S]
    ELSE PacketLoop(buf, S)


\* ---------------------------------------------------------------------------
\* Inputs of the behaviours
\* ---------------------------------------------------------------------------
\* Buffer.writeUInt16BE(v): two bytes, big-endian
U16(v) == <<(v \div 256) % 256, v % 256>>

FaderIds == 1..maxFaderCount
\* a protocol level above 255, so that both of its bytes matter
SomeLevel == 300

\* the (command, data, isFaderLevel) triples the public methods hand to
\* sendCommand: getFaderLevel(1), setFaderLevel(1, level), setFaderCut(1, ..)
\* (getConsoleInfo is called by the timer of connect())
Requests ==
    {[command |-> READ_FADER_LEVEL, data |-> U16(1), fader |-> FALSE]}
    \cup {[command |-> WRITE_FADER_LEVEL, data |-> U16(1) \o U16(SomeLevel),
           fader |-> TRUE]}
    \cup {[command |-> WRITE_FADER_CUT, data |-> U16(1) \o <<0>>, fader |-> FALSE]}

ConsoleInfoRequest == [command |-> READ_CONSOLE_INFO, data |-> <<>>, fader |-> FALSE]

\* frames the console sends (command, payload)
InboundFrames ==
    {<<READ_FADER_LEVEL, U16(id) \o U16(SomeLevel)>> : id \in FaderIds}
    \cup {<<READ_FADER_LEVEL, U16(1)>>}
    \cup {<<WRITE_FADER_LEVEL, U16(1) \o U16(SomeLevel)>>}
    \cup {<<READ_CONSOLE_INFO, <<>> >>}

\* chunks delivered by the socket's 'data' event
Chunks ==
    {<<SOH>> \o createIncomingPacket(f[1], f[2]) : f \in InboundFrames}
    \cup {<<ACK>>, <<NAK, 1>>}

\* ---------------------------------------------------------------------------
\* Initial state: the client right after construction
\* ---------------------------------------------------------------------------
ClientInit ==
    /\ connectionState = "disconnected"
    /\ consoleInfo = <<>>
    /\ socket = "null"
    /\ closePending = FALSE
    /\ autoReconnect \in BOOLEAN
    /\ reconnectTimeout = NoTimer
    /\ dataBuffer = <<>>
    /\ commandQueue = <<>>
    /\ faderLevelQueue = <<>>
    /\ isProcessing = FALSE
    /\ lastFaderLevelSent = LongAgoFader
    /\ lastCommandSent = LongAgoCommand
    /\ requestMap = <<>>
    /\ responseTimers = {}
    /\ wakeTimers = EmptyBag
    /\ initTimers = EmptyBag
    /\ calls = <<>>
    /\ written = <<>>
    /\ lastWriteAt = LongAgoCommand
    /\ lastFaderWriteAt = LongAgoFader
    /\ emitted = <<>>
    /\ result = NoResult

CodecIdle == [kind |-> "none"]

Init ==
    /\ ClientInit
    /\ codecIn = CodecIdle
    /\ codecOut = CodecIdle

\* ---------------------------------------------------------------------------
\* sendCommand and the public methods in front of it
\* ---------------------------------------------------------------------------
\* the key sendCommand registers a read request under (client.ts 924-927)
RequestKey(command, data) ==
    IF Len(data) >= 2 THEN <<command, ReadUInt16BE(data, 0)>> ELSE <<command>>

\* the record of one call of a public method: its request, the state of its
\* promise, and whether a frame or NAK of the console was correlated to it
NewCall(req, status, value) ==
    [command |-> req.command, data |-> req.data, fader |-> req.fader,
     status |-> status, value |-> value, answered |-> FALSE]

\* setTimeout(handleCommandTimeout, commandResponseTimeoutMs)
RegisterTimer(timers, c, key) ==
    timers \cup {[call |-> c, key |-> key,
                  deadline |-> now + commandResponseTimeoutMs]}

\* requestMap.set for read commands only: (command & 0x8000) === 0
RegisterRequest_AlsoWrites(m, command, key, c) == MapSet(m, key, c)

RegisterRequest(m, command, key, c) ==
    IF command < 32768 THEN MapSet(m, key, c) ELSE m

\* ensureConnected() (client.ts 1097-1103): TRUE when it returns, FALSE when
\* it throws
ensureConnected_Never(state) == TRUE

ensureConnected(state) == state = "connected"

\* a public method (ensureConnected, then sendCommand) (client.ts 895-960,
\* 1097-1170)
DoCall(req) ==
    /\ UNCHANGED <<connectionState, consoleInfo, socket, closePending,
                   autoReconnect, reconnectTimeout, dataBuffer, isProcessing>>
    /\ IF ~ensureConnected(connectionState)
       THEN \* ensureConnected() throws
            /\ UNCHANGED <<schedVars, requestMap, responseTimers, calls>>
            /\ emitted' = <<>>
            /\ result' = NotConnected(connectionState)
       ELSE IF socket = "null"
       THEN \* reject(new Error("No socket available."))
            /\ UNCHANGED <<schedVars, requestMap, responseTimers, calls>>
            /\ emitted' = <<>>
            /\ result' = NoSocket
       ELSE LET c == Len(calls) + 1
                isRead == req.command < 32768
                requestKey == RequestKey(req.command, req.data)
                q0 == IF req.fader
                      THEN [Sched EXCEPT !.fq = Append(@, c)]
                      ELSE [Sched EXCEPT !.cq = Append(@, c)]
            IN  /\ Quiet
                /\ calls' = Append(calls,
                       IF isRead THEN NewCall(req, "pending", "none")
                       ELSE NewCall(req, "resolved", "undefined"))
                /\ requestMap' = RegisterRequest(requestMap, req.command, requestKey, c)
                /\ responseTimers' =
                       IF isRead THEN RegisterTimer(responseTimers, c, requestKey)
                       ELSE responseTimers
                /\ SetSched(IF isProcessing THEN q0
                            ELSE processCommandQueue(q0, connectionState, socket,
                                                     isProcessing))

\* the model has room to record one more call, the call of every armed
\* connect() timer counted
RoomForCall(max) == Len(calls) + BagCardinality(initTimers) < max

\* an application calls a public method
Call(req, max) ==
    /\ (connectionState = "connected" /\ socket # "null") => RoomForCall(max)
    /\ DoCall(req)
    /\ UNCHANGED <<initTimers, codecVars>>

ApiCall(req) == Call(req, MaxCalls)

\* the timer armed by connect(): setTimeout(() => getConsoleInfo(), 50)
InitTimerFire ==
    \E t \in BagToSet(initTimers) :
        /\ now >= t
        /\ DoCall(ConsoleInfoRequest)
        /\ initTimers' = initTimers (-) SetToBag({t})
        /\ UNCHANGED codecVars

\* handleCommandTimeout of one read request (client.ts 934-950)
ResponseTimerFire ==
    \E t \in responseTimers :
        /\ now >= t.deadline
        /\ responseTimers' = responseTimers \ {t}
        /\ IF MapHas(requestMap, t.key)
           THEN /\ requestMap' = MapDelete(requestMap, t.key)
                /\ calls' = Settle(calls, t.call, "rejected",
                                   [error |-> "timed out",
                                    command |-> calls[t.call].command])
           ELSE UNCHANGED <<requestMap, calls>>
        /\ Quiet
        /\ UNCHANGED <<connectionState, consoleInfo, socket, closePending,
                       autoReconnect, reconnectTimeout, dataBuffer, isProcessing,
                       schedVars, initTimers, codecVars>>

\* a timer armed by processCommandQueue fires
WakeTimerFire ==
    \E t \in BagToSet(wakeTimers) :
        /\ now >= t
        /\ SetSched(processCommandQueue(
               [Sched EXCEPT !.wake = @ (-) SetToBag({t})],
               connectionState, socket, isProcessing))
        /\ Quiet
        /\ UNCHANGED <<connectionState, consoleInfo, socket, closePending,
                       autoReconnect, reconnectTimeout, dataBuffer, isProcessing,
                       requestMap, responseTimers, initTimers, calls, codecVars>>

\* the socket's 'data' event
Receive(chunk) ==
    /\ socket = "open"
    /\ LET r == handleData(dataBuffer \o chunk,
                    [requestMap |-> requestMap, calls |-> calls,
                     emitted |-> <<>>, consoleInfo |-> consoleInfo])
       IN  /\ dataBuffer' = r.buf
           /\ requestMap' = r.S.requestMap
           /\ calls' = r.S.calls
           /\ consoleInfo' = r.S.consoleInfo
    /\ Quiet
    /\ UNCHANGED <<connectionState, socket, closePending, autoReconnect,
                   reconnectTimeout, isProcessing, schedVars, responseTimers,
                   initTimers, codecVars>>

\* ---------------------------------------------------------------------------
\* The clock
\* ---------------------------------------------------------------------------
\* deadlines of all armed timers
Deadlines ==
    {t.deadline : t \in responseTimers} \cup BagToSet(wakeTimers)
        \cup BagToSet(initTimers)
        \cup (IF reconnectTimeout = NoTimer THEN {} ELSE {reconnectTimeout})

\* a stamp one tick later
OlderStamp(t, floor) == IF t - 1 < floor THEN floor ELSE t - 1

\* a bag of deadlines one tick later
RECURSIVE SoonerBag(_, _)
SoonerBag(b, ds) ==
    IF ds = {} THEN EmptyBag
    ELSE LET dl == CHOOSE x \in ds : TRUE
         IN  [e \in {dl - 1} |-> b[dl]] (+) SoonerBag(b, ds \ {dl})

\* the clock advances by one tick; the event loop runs a timer at most
\* maxLate after its deadline, and a connection is not established within one
\* tick
Advance(maxLate) ==
    /\ \A dl \in Deadlines : now < dl + maxLate
    /\ lastFaderLevelSent' = OlderStamp(lastFaderLevelSent, LongAgoFader)
    /\ lastCommandSent' = OlderStamp(lastCommandSent, LongAgoCommand)
    /\ lastWriteAt' = OlderStamp(lastWriteAt, LongAgoCommand)
    /\ lastFaderWriteAt' = OlderStamp(lastFaderWriteAt, LongAgoFader)
    /\ responseTimers' = {[t EXCEPT !.deadline = @ - 1] : t \in responseTimers}
    /\ wakeTimers' = SoonerBag(wakeTimers, BagToSet(wakeTimers))
    /\ initTimers' = SoonerBag(initTimers, BagToSet(initTimers))
    /\ reconnectTimeout' = IF reconnectTimeout = NoTimer THEN NoTimer
                           ELSE reconnectTimeout - 1
    /\ socket' = IF socket = "dialing" THEN "connecting" ELSE socket
    /\ Quiet
    /\ UNCHANGED <<connectionState, consoleInfo, closePending, autoReconnect,
                   dataBuffer, commandQueue, faderLevelQueue, isProcessing,
                   requestMap, calls, written, codecVars>>

Tick == Advance(MaxLate)

\* ---------------------------------------------------------------------------
\* Connection life cycle
\* ---------------------------------------------------------------------------
\* the socket has the 'close' listener of connect() attached
Attached(sk) == sk \in {"open", "errored"}

\* handleDisconnect() that never schedules a reconnect
handleDisconnect_NoReconnect(auto, rt) ==
    /\ socket' = "null"
    /\ consoleInfo' = IF connectionState # "disconnected" THEN <<>>
                      ELSE consoleInfo
    /\ connectionState' = "disconnected"
    /\ reconnectTimeout' = rt
    /\ emitted' = << <<"disconnect">> >>
                      \o setState(connectionState, "disconnected")
    /\ result' = NoResult

\* handleDisconnect() (client.ts 238-258); auto is options.autoReconnect and
\* rt the reconnect timer as the caller left them.  A reconnect timer that is
\* overwritten here keeps running in the program; its connect() is covered by
\* the Connect action.
handleDisconnect(auto, rt) ==
    /\ socket' = "null"
    /\ consoleInfo' = IF connectionState # "disconnected" THEN <<>>
                      ELSE consoleInfo
    /\ IF auto
       THEN /\ connectionState' = "reconnecting"
            /\ reconnectTimeout' = now + reconnectInterval
       ELSE /\ connectionState' = "disconnected"
            /\ reconnectTimeout' = rt
    /\ emitted' = << <<"disconnect">> >>
                      \o setState(connectionState, "disconnected")
                      \o (IF auto THEN setState("disconnected", "reconnecting")
                          ELSE <<>>)
    /\ result' = NoResult

\* connect() without its guard: it dials whatever the state is
connect_NoGuard ==
    /\ reconnectTimeout' = NoTimer
    /\ connectionState' = "connecting"
    /\ consoleInfo' = <<>>
    /\ socket' = "dialing"
    /\ emitted' = setState(connectionState, "connecting")
    /\ result' = NoResult

\* connect() up to its await (client.ts 161-199)
connect ==
    IF socket # "null" \/ connectionState = "connecting"
    THEN /\ UNCHANGED <<connectionState, consoleInfo, socket, reconnectTimeout>>
         /\ emitted' = <<>>
         /\ result' = AlreadyConnecting
    ELSE /\ reconnectTimeout' = NoTimer
         /\ connectionState' = "connecting"
         /\ consoleInfo' = <<>>
         /\ socket' = "dialing"
         /\ emitted' = setState(connectionState, "connecting")
         /\ result' = NoResult

Connect ==
    /\ connect
    /\ UNCHANGED <<closePending, autoReconnect, dataBuffer, isProcessing,
                   schedVars, requestMap, responseTimers, initTimers, calls,
                   codecVars>>

\* the reconnect timer armed by handleDisconnect fires: () => this.connect()
ReconnectTimerFire ==
    /\ reconnectTimeout # NoTimer
    /\ now >= reconnectTimeout
    /\ IF socket # "null" \/ connectionState = "connecting"
       THEN /\ reconnectTimeout' = NoTimer
            /\ UNCHANGED <<connectionState, consoleInfo, socket>>
            /\ emitted' = <<>>
            /\ result' = AlreadyConnecting
       ELSE connect
    /\ UNCHANGED <<closePending, autoReconnect, dataBuffer, isProcessing,
                   schedVars, requestMap, responseTimers, initTimers, calls,
                   codecVars>>

\* connect() after its await that does not run processCommandQueue
Open_NoFlush(max) ==
    /\ socket = "connecting"
    /\ RoomForCall(max)
    /\ UNCHANGED schedVars
    /\ initTimers' = initTimers (+) SetToBag({now + InitDelay})
    /\ connectionState' = "connected"
    /\ socket' = "open"
    /\ emitted' = setState(connectionState, "connected")
                      \o << <<"connect">>, <<"ready">> >>
    /\ result' = NoResult
    /\ UNCHANGED <<consoleInfo, closePending, autoReconnect, reconnectTimeout,
                   dataBuffer, isProcessing, requestMap, responseTimers, calls,
                   codecVars>>

\* the socket connects: connect() continues after its await (client.ts 201-236)
Open(max) ==
    /\ socket = "connecting"
    /\ RoomForCall(max)
    /\ SetSched(processCommandQueue(Sched, "connected", "open", isProcessing))
    /\ initTimers' = initTimers (+) SetToBag({now + InitDelay})
    /\ connectionState' = "connected"
    /\ socket' = "open"
    /\ emitted' = setState(connectionState, "connected")
                      \o << <<"connect">>, <<"ready">> >>
    /\ result' = NoResult
    /\ UNCHANGED <<consoleInfo, closePending, autoReconnect, reconnectTimeout,
                   dataBuffer, isProcessing, requestMap, responseTimers, calls,
                   codecVars>>

SocketOpen == Open(MaxCalls)

\* the connection attempt fails: connect() rejects, the socket object stays
SocketConnectError ==
    /\ socket \in {"dialing", "connecting"}
    /\ socket' = "failed"
    /\ emitted' = <<>>
    /\ result' = ConnectFailed
    /\ UNCHANGED <<connectionState, consoleInfo, closePending, autoReconnect,
                   reconnectTimeout, dataBuffer, isProcessing, schedVars,
                   requestMap, responseTimers, initTimers, calls, codecVars>>

\* the socket's 'error' event after the connection (client.ts 208-214)
SocketError ==
    /\ socket = "open"
    /\ socket' = "errored"
    /\ connectionState' = "error"
    /\ emitted' = setState(connectionState, "error") \o << <<"error">> >>
    /\ result' = NoResult
    /\ UNCHANGED <<consoleInfo, closePending, autoReconnect, reconnectTimeout,
                   dataBuffer, isProcessing, schedVars, requestMap,
                   responseTimers, initTimers, calls, codecVars>>

\* the 'close' event of the current socket
SocketClose ==
    /\ Attached(socket)
    /\ handleDisconnect(autoReconnect, reconnectTimeout)
    /\ UNCHANGED <<closePending, autoReconnect, dataBuffer, isProcessing,
                   schedVars, requestMap, responseTimers, initTimers, calls,
                   codecVars>>

\* the 'close' event of a socket destroyed earlier by handleDisconnect; the
\* listener is bound to the client and acts on the current socket
StaleClose ==
    /\ closePending
    /\ closePending' = Attached(socket)
    /\ handleDisconnect(autoReconnect, reconnectTimeout)
    /\ UNCHANGED <<autoReconnect, dataBuffer, isProcessing, schedVars,
                   requestMap, responseTimers, initTimers, calls, codecVars>>

\* disconnect() that leaves options.autoReconnect as it is
Disconnect_KeepsAutoReconnect ==
    /\ closePending' = (closePending \/ Attached(socket))
    /\ handleDisconnect(autoReconnect, NoTimer)
    /\ UNCHANGED <<autoReconnect, dataBuffer, isProcessing, schedVars,
                   requestMap, responseTimers, initTimers, calls, codecVars>>

\* disconnect() (client.ts 264-271)
Disconnect ==
    /\ autoReconnect' = FALSE
    /\ closePending' = (closePending \/ Attached(socket))
    /\ handleDisconnect(FALSE, NoTimer)
    /\ UNCHANGED <<dataBuffer, isProcessing, schedVars, requestMap,
                   responseTimers, initTimers, calls, codecVars>>

Next ==
    \/ Connect
    \/ SocketOpen
    \/ SocketConnectError
    \/ SocketError
    \/ SocketClose
    \/ StaleClose
    \/ Disconnect
    \/ ReconnectTimerFire
    \/ InitTimerFire
    \/ \E req \in Requests : ApiCall(req)
    \/ \E chunk \in Chunks : Receive(chunk)
    \/ ResponseTimerFire
    \/ WakeTimerFire
    \/ Tick

Spec == Init /\ [][Next]_vars

\* ---------------------------------------------------------------------------
\* One connection: connect() has been called once on a fresh client created
\* without autoReconnect, and is not called again
\* ---------------------------------------------------------------------------
InitSession ==
    /\ connectionState = "connecting"
    /\ consoleInfo = <<>>
    /\ socket = "dialing"
    /\ closePending = FALSE
    /\ autoReconnect = FALSE
    /\ reconnectTimeout = NoTimer
    /\ dataBuffer = <<>>
    /\ commandQueue = <<>>
    /\ faderLevelQueue = <<>>
    /\ isProcessing = FALSE
    /\ lastFaderLevelSent = LongAgoFader
    /\ lastCommandSent = LongAgoCommand
    /\ requestMap = <<>>
    /\ responseTimers = {}
    /\ wakeTimers = EmptyBag
    /\ initTimers = EmptyBag
    /\ calls = <<>>
    /\ written = <<>>
    /\ lastWriteAt = LongAgoCommand
    /\ lastFaderWriteAt = LongAgoFader
    /\ emitted = <<>>
    /\ result = NoResult
    /\ codecIn = CodecIdle
    /\ codecOut = CodecIdle

SessionCall(req) == Call(req, MaxSessionCalls)

SessionOpen == Open(MaxSessionCalls)

NextSession ==
    \/ SessionOpen
    \/ SocketConnectError
    \/ SocketError
    \/ SocketClose
    \/ StaleClose
    \/ Disconnect
    \/ InitTimerFire
    \/ \E req \in Requests : SessionCall(req)
    \/ \E chunk \in Chunks : Receive(chunk)
    \/ ResponseTimerFire
    \/ WakeTimerFire
    \/ Tick

SpecSession == InitSession /\ [][NextSession]_vars

\* ---------------------------------------------------------------------------
\* The two lanes of a connected client under a steady load of write commands
\* (setFaderLevel on the fader lane, setFaderCut on the general lane).  The
\* client is connected, the console-info exchange of connect() is over and the
\* rate stamps have aged.  A write command resolves its promise when it is
\* queued, so the histories calls and written are not kept here, and of the
\* timers armed for one deadline one is kept: the states of a run that never
\* ends recur.
\* ---------------------------------------------------------------------------
\* commands waiting in the fader lane and in the general lane at most
MaxFaderLaneLen == 2
MaxGeneralLaneLen == 1
\* the event loop runs a timer at most LaneLate after its deadline: later
\* than faderLevelRateMs - globalCommandRateMs
LaneLate == 2

InitLanes ==
    /\ connectionState = "connected"
    /\ consoleInfo = <<>>
    /\ socket = "open"
    /\ closePending = FALSE
    /\ autoReconnect = FALSE
    /\ reconnectTimeout = NoTimer
    /\ dataBuffer = <<>>
    /\ commandQueue = <<>>
    /\ faderLevelQueue = <<>>
    /\ isProcessing = FALSE
    /\ lastFaderLevelSent = LongAgoFader
    /\ lastCommandSent = LongAgoCommand
    /\ requestMap = <<>>
    /\ responseTimers = {}
    /\ wakeTimers = EmptyBag
    /\ initTimers = EmptyBag
    /\ calls = <<>>
    /\ written = <<>>
    /\ lastWriteAt = LongAgoCommand
    /\ lastFaderWriteAt = LongAgoFader
    /\ emitted = <<>>
    /\ result = NoResult
    /\ codecIn = CodecIdle
    /\ codecOut = CodecIdle

\* the scheduler record without the history of writes and with one timer per
\* deadline.  While a command waits, every sendCommand and every timer run
\* arms a timer and none is ever cancelled, so their number grows without
\* bound; the timers of one deadline run in the same window, and those that
\* run after the first in a tick find either the command rate not elapsed or
\* nothing they may write, and arm the deadline now + globalCommandRateMs
\* once more.
Forget(q) == [q EXCEPT !.written = <<>>,
                       !.wake = SetToBag(BagToSet(@))]

\* sendCommand of a write command (client.ts 895-960): queued on its lane,
\* resolved at once, then processCommandQueue
LaneSend(isFaderLevel) ==
    /\ IF isFaderLevel THEN Len(faderLevelQueue) < MaxFaderLaneLen
                        ELSE Len(commandQueue) < MaxGeneralLaneLen
    /\ LET q0 == IF isFaderLevel
                 THEN [Sched EXCEPT !.fq = Append(@, 0)]
                 ELSE [Sched EXCEPT !.cq = Append(@, 0)]
       IN  SetSched(Forget(IF isProcessing THEN q0
                           ELSE processCommandQueue(q0, connectionState, socket,
                                                    isProcessing)))
    /\ Quiet
    /\ UNCHANGED <<connectionState, consoleInfo, socket, closePending,
                   autoReconnect, reconnectTimeout, dataBuffer, isProcessing,
                   requestMap, responseTimers, initTimers, calls, codecVars>>

\* a timer armed by processCommandQueue fires
LaneWake ==
    \E t \in BagToSet(wakeTimers) :
        /\ now >= t
        /\ SetSched(Forget(processCommandQueue(
               [Sched EXCEPT !.wake = @ (-) SetToBag({t})],
               connectionState, socket, isProcessing)))
        /\ Quiet
        /\ UNCHANGED <<connectionState, consoleInfo, socket, closePending,
                       autoReconnect, reconnectTimeout, dataBuffer, isProcessing,
                       requestMap, responseTimers, initTimers, calls, codecVars>>

LaneTick == Advance(LaneLate)

NextLanes ==
    \/ \E isFaderLevel \in BOOLEAN : LaneSend(isFaderLevel)
    \/ LaneWake
    \/ LaneTick

\* a fair event loop: the clock advances and due timers run
SpecLanesFair ==
    /\ InitLanes
    /\ [][NextLanes]_vars
    /\ WF_vars(LaneTick)
    /\ WF_vars(LaneWake)

\* ---------------------------------------------------------------------------
\* Public methods with their arguments: getFaderLevel, setFaderLevel,
\* getFaderCut, getAvailableAux, setRouteToMain, getStereoImage
\* (client.ts 1129-1170, 1224-1235, 1266-1283, 1431-1453, 1505-1522)
\* ---------------------------------------------------------------------------
\* highest protocol level setFaderLevel accepts
MaxLevel == 1023
WRITE_ROUTE_TO_MAIN == 32789

InvalidFaderId(faderId) ==
    <<"Error", "Invalid fader ID", faderId, 1, maxFaderCount>>
InvalidFaderLevel(level) ==
    <<"Error", "Invalid fader level", level, 0, MaxLevel>>
TooManyRoutes == <<"Error", "Maximum main routes", maxFaderCount>>

getFaderLevel(faderId) ==
    [name |-> "getFaderLevel", faderId |-> faderId, level |-> 0, routes |-> <<>>]
setFaderLevel(faderId, level) ==
    [name |-> "setFaderLevel", faderId |-> faderId, level |-> level,
     routes |-> <<>>]
getFaderCut(faderId) ==
    [name |-> "getFaderCut", faderId |-> faderId, level |-> 0, routes |-> <<>>]
getStereoImage(faderId) ==
    [name |-> "getStereoImage", faderId |-> faderId, level |-> 0, routes |-> <<>>]
getAvailableAux ==
    [name |-> "getAvailableAux", faderId |-> 0, level |-> 0, routes |-> <<>>]
setRouteToMain(mainId, routes) ==
    [name |-> "setRouteToMain", faderId |-> mainId, level |-> 0,
     routes |-> routes]

\* the argument checks of a method, made after ensureConnected(): the error
\* thrown, or NoResult when the method goes on to sendCommand
Validate_LevelUnchecked(m) ==
    IF m.name \in {"getFaderLevel", "setFaderLevel", "getStereoImage"}
    THEN IF m.faderId < 1 \/ m.faderId > maxFaderCount
         THEN InvalidFaderId(m.faderId)
         ELSE NoResult
    ELSE IF m.name = "setRouteToMain" /\ Len(m.routes) > maxFaderCount
    THEN TooManyRoutes
    ELSE NoResult

Validate(m) ==
    IF m.name \in {"getFaderLevel", "setFaderLevel", "getStereoImage"}
    THEN IF m.faderId < 1 \/ m.faderId > maxFaderCount
         THEN InvalidFaderId(m.faderId)
         ELSE IF m.name = "setFaderLevel" /\ (m.level < 0 \/ m.level > MaxLevel)
         THEN InvalidFaderLevel(m.level)
         ELSE NoResult
    ELSE IF m.name = "setRouteToMain" /\ Len(m.routes) > maxFaderCount
    THEN TooManyRoutes
    ELSE NoResult

\* byte byteIndex (0-based) of the route bitmap of setRouteToMain
RouteByte(routes, byteIndex) ==
    LET bit(bitIndex) ==
            LET routeIndex == byteIndex * 8 + bitIndex
            IN  IF routeIndex < Len(routes) /\ routes[routeIndex + 1]
                THEN 2 ^ bitIndex ELSE 0
    IN  bit(0) + bit(1) + bit(2) + bit(3) + bit(4) + bit(5) + bit(6) + bit(7)

\* the (command, data, isFaderLevel) a method hands to sendCommand
RequestOf(m) ==
    IF m.name = "getFaderLevel"
    THEN [command |-> READ_FADER_LEVEL, data |-> U16(m.faderId), fader |-> FALSE]
    ELSE IF m.name = "setFaderLevel"
    THEN [command |-> WRITE_FADER_LEVEL, data |-> U16(m.faderId) \o U16(m.level),
          fader |-> TRUE]
    ELSE IF m.name = "getFaderCut"
    THEN [command |-> READ_FADER_CUT, data |-> U16(m.faderId), fader |-> FALSE]
    ELSE IF m.name = "getStereoImage"
    THEN [command |-> READ_STEREO_IMAGE, data |-> U16(m.faderId), fader |-> FALSE]
    ELSE IF m.name = "getAvailableAux"
    THEN [command |-> READ_AVAILABLE_AUX, data |-> <<>>, fader |-> FALSE]
    ELSE [command |-> WRITE_ROUTE_TO_MAIN,
          data |-> <<m.faderId % 256, 0>>
                      \o [i \in 1..24 |-> RouteByte(m.routes, i - 1)],
          fader |-> FALSE]

\* what getFaderCut returns once sendCommand has resolved with res:
\* `result === 0`, where res is the boolean parseResponseData decoded; strict
\* equality of a boolean and a number is false
getFaderCutResult(res) == IF res \in BOOLEAN THEN FALSE ELSE res = 0

\* an application calls the method m
Method(m, max) ==
    IF ensureConnected(connectionState) /\ Validate(m) # NoResult
    THEN /\ result' = Validate(m)
         /\ emitted' = <<>>
         /\ UNCHANGED <<connectionState, consoleInfo, socket, closePending,
                        autoReconnect, reconnectTimeout, dataBuffer,
                        isProcessing, schedVars, requestMap, responseTimers,
                        initTimers, calls, codecVars>>
    ELSE Call(RequestOf(m), max)

\* calls made during the one connection of SpecApi
MaxApiCalls == 2

\* the method calls an application makes: fader ids and levels at and beyond
\* the ends of their ranges, and one command of each routing family
Methods ==
    {getFaderLevel(id) : id \in {0, 1, maxFaderCount, maxFaderCount + 1}}
    \cup {setFaderLevel(id, MaxLevel) : id \in {0, 1, maxFaderCount + 1}}
    \cup {setFaderLevel(1, level) : level \in {-1, 0, MaxLevel + 1}}
    \cup {getAvailableAux, setRouteToMain(1, <<TRUE>>)}
    \cup {getFaderCut(1)}
    \cup {getStereoImage(id) : id \in {0, 1}}

\* frames the console sends in answer to these methods (command, payload)
ApiFrames ==
    InboundFrames
    \cup {<<READ_FADER_CUT, U16(1) \o <<b>> >> : b \in {0, 1}}
    \cup {<<READ_STEREO_IMAGE, U16(1) \o <<1, 0>> >>}

ApiChunks ==
    {<<SOH>> \o createIncomingPacket(f[1], f[2]) : f \in ApiFrames}
    \cup {<<ACK>>, <<NAK, 1>>}

ApiMethod(m) == Method(m, MaxApiCalls)

ApiOpen == Open(MaxApiCalls)

NextApi ==
    \/ ApiOpen
    \/ SocketError
    \/ SocketClose
    \/ Disconnect
    \/ InitTimerFire
    \/ \E m \in Methods : ApiMethod(m)
    \/ \E chunk \in ApiChunks : Receive(chunk)
    \/ ResponseTimerFire
    \/ WakeTimerFire
    \/ Tick

\* one connection, with the public methods called with arguments of all kinds
SpecApi == InitSession /\ [][NextApi]_vars

TypeOK ==
    /\ connectionState \in {"disconnected", "connecting", "connected",
                            "reconnecting", "error"}
    /\ socket \in {"null", "dialing", "connecting", "failed", "open", "errored"}
    /\ Len(calls) <= MaxSessionCalls
    /\ isProcessing = FALSE
    /\ lastCommandSent \in LongAgoCommand..now

\* ---------------------------------------------------------------------------
\* The packet codec on its own: one input, drawn at the start, is run through
\* buildPacket / parsePacket
\* ---------------------------------------------------------------------------
CodecCommands == {0, 8, 255, 256, WRITE_FADER_LEVEL, WRITE_FADER_CUT, 65535}
CodecPayloadBytes == {0, 1, 128, 255}
CodecBufferBytes == {0, 1, 2, 3, 255}

CodecInputs ==
    {[kind |-> "frame", command |-> c, data |-> d] :
        c \in CodecCommands, d \in SeqsUpTo(CodecPayloadBytes, MaxPayloadLen)}
    \cup {[kind |-> "buffer", buffer |-> b] :
        b \in SeqsUpTo(CodecBufferBytes, MaxBufLen)}

InitCodec ==
    /\ ClientInit
    /\ codecIn \in CodecInputs
    /\ codecOut = CodecIdle

\* the device byte of a message (without SOH) set to dev
WithDevice(message, dev) == [message EXCEPT ![2] = dev]

\* buildPacket(command, data), then parsePacket of its output without SOH
BuildThenParse ==
    /\ codecIn.kind = "frame"
    /\ codecOut = CodecIdle
    /\ LET packet == buildPacket(codecIn.command, codecIn.data)
       IN  codecOut' = [kind |-> "roundtrip",
                        packet |-> packet,
                        parsed |-> parsePacket(Tail(packet)),
                        parsedAsInbound |->
                            parsePacket(WithDevice(Tail(packet), DEVICE_ID_CONTROLLER))]
    /\ UNCHANGED <<connectionState, consoleInfo, socket, closePending,
                   autoReconnect, reconnectTimeout, dataBuffer, isProcessing,
                   schedVars, requestMap, responseTimers, initTimers, calls,
                   emitted, result, codecIn>>

\* parsePacket(buffer) of an arbitrary buffer
ParseBuffer ==
    /\ codecIn.kind = "buffer"
    /\ codecOut = CodecIdle
    /\ codecOut' = [kind |-> "parsed", result |-> parsePacket(codecIn.buffer)]
    /\ UNCHANGED <<connectionState, consoleInfo, socket, closePending,
                   autoReconnect, reconnectTimeout, dataBuffer, isProcessing,
                   schedVars, requestMap, responseTimers, initTimers, calls,
                   emitted, result, codecIn>>

NextCodec ==
    \/ BuildThenParse
    \/ ParseBuffer

SpecCodec == InitCodec /\ [][NextCodec]_vars

\* ---------------------------------------------------------------------------
\* The level converters (converters.ts).  A number is kept as the exact
\* fraction n/d with d > 0: a level has d = 1, a dB value the denominator of
\* the bracket it was interpolated in.  The doubles of the code differ from
\* these fractions by rounding errors far below half a level.
\* ---------------------------------------------------------------------------
Rat(n, d) == [n |-> n, d |-> d]
RatOf(k) == Rat(k, 1)
RatLess(a, b) == a.n * b.d < b.n * a.d
RatLeq(a, b) == a.n * b.d <= b.n * a.d

\* Math.round: the nearest integer, halves towards +Infinity
MathRound(x) == (2 * x.n + x.d) \div (2 * x.d)

\* conversion points [level, dB]
MAIN_FADER_MAP ==
    << <<0, -100>>, <<40, -100>>, <<80, -70>>, <<162, -50>>, <<519, -20>>,
       <<760, -10>>, <<1004, 0>>, <<1023, 0>> >>

CHANNEL_FADER_MAP ==
    << <<0, -100>>, <<40, -100>>, <<80, -60>>, <<162, -40>>, <<519, -20>>,
       <<760, 0>>, <<1004, 10>>, <<1023, 10>> >>

\* interpolate that takes the last bracket holding the value, not the first
interpolate_LastBracket(value, map, fromIndex, toIndex) ==
    LET from(pt) == pt[fromIndex + 1]
        to(pt) == pt[toIndex + 1]
        hits == {i \in 1..(Len(map) - 1) :
                    /\ RatLeq(RatOf(from(map[i])), value)
                    /\ RatLeq(value, RatOf(from(map[i + 1])))}
        last == CHOOSE i \in hits : \A j \in hits : i >= j
        p1 == IF hits = {} THEN map[1] ELSE map[last]
        p2 == IF hits = {} THEN map[Len(map)] ELSE map[last + 1]
        fromRange == from(p2) - from(p1)
        toRange == to(p2) - to(p1)
        res == Rat(to(p1) * fromRange * value.d
                       + (value.n - from(p1) * value.d) * toRange,
                   fromRange * value.d)
    IN  IF RatLess(value, RatOf(from(p1))) THEN RatOf(to(p1))
        ELSE IF RatLess(RatOf(from(p2)), value) THEN RatOf(to(p2))
        ELSE IF fromRange = 0 THEN RatOf(to(p1))
        ELSE IF toIndex = 0 THEN RatOf(MathRound(res))
        ELSE res

\* interpolate(value, map, fromIndex, toIndex) (converters.ts 35-67); index 0
\* of a point is its level, index 1 its dB value
interpolate(value, map, fromIndex, toIndex) ==
    LET from(pt) == pt[fromIndex + 1]
        to(pt) == pt[toIndex + 1]
        hits == {i \in 1..(Len(map) - 1) :
                    /\ RatLeq(RatOf(from(map[i])), value)
                    /\ RatLeq(value, RatOf(from(map[i + 1])))}
        first == CHOOSE i \in hits : \A j \in hits : i <= j
        p1 == IF hits = {} THEN map[1] ELSE map[first]
        p2 == IF hits = {} THEN map[Len(map)] ELSE map[first + 1]
        fromRange == from(p2) - from(p1)
        toRange == to(p2) - to(p1)
        res == Rat(to(p1) * fromRange * value.d
                       + (value.n - from(p1) * value.d) * toRange,
                   fromRange * value.d)
    IN  IF RatLess(value, RatOf(from(p1))) THEN RatOf(to(p1))
        ELSE IF RatLess(RatOf(from(p2)), value) THEN RatOf(to(p2))
        ELSE IF fromRange = 0 THEN RatOf(to(p1))
        ELSE IF toIndex = 0 THEN RatOf(MathRound(res))
        ELSE res

mainLevelToDb(level) == interpolate(level, MAIN_FADER_MAP, 0, 1)
dbToMainLevel(db) == interpolate(db, MAIN_FADER_MAP, 1, 0)
channelLevelToDb(level) == interpolate(level, CHANNEL_FADER_MAP, 0, 1)
\* dbToChannelLevel that reads the table of the main faders
dbToChannelLevel_MainMap(db) == interpolate(db, MAIN_FADER_MAP, 1, 0)

dbToChannelLevel(db) == interpolate(db, CHANNEL_FADER_MAP, 1, 0)

\* the converters on their own: one input, drawn at the start, is converted
\* and converted back
\* dB values from -MaxDbBelow to MaxDbAbove
MaxDbBelow == 120
MaxDbAbove == 20

ConverterInputs ==
    {[kind |-> "level", value |-> RatOf(level)] : level \in 0..MaxLevel}
    \cup {[kind |-> "db", value |-> RatOf(db)] :
              db \in (-MaxDbBelow)..MaxDbAbove}

InitConverters ==
    /\ ClientInit
    /\ codecIn \in ConverterInputs
    /\ codecOut = CodecIdle

\* channelLevelToDb / mainLevelToDb of a level, and each result converted back
LevelToDbAndBack ==
    /\ codecIn.kind = "level"
    /\ codecOut = CodecIdle
    /\ codecOut' = [kind |-> "fromLevel",
                    channel |-> channelLevelToDb(codecIn.value),
                    main |-> mainLevelToDb(codecIn.value),
                    channelBack |-> dbToChannelLevel(channelLevelToDb(codecIn.value)),
                    mainBack |-> dbToMainLevel(mainLevelToDb(codecIn.value))]
    /\ UNCHANGED <<connectionState, consoleInfo, socket, closePending,
                   autoReconnect, reconnectTimeout, dataBuffer, isProcessing,
                   schedVars, requestMap, responseTimers, initTimers, calls,
                   emitted, result, codecIn>>

\* dbToChannelLevel / dbToMainLevel of a dB value, and each result converted
\* back
DbToLevelAndBack ==
    /\ codecIn.kind = "db"
    /\ codecOut = CodecIdle
    /\ codecOut' = [kind |-> "fromDb",
                    channel |-> dbToChannelLevel(codecIn.value),
                    main |-> dbToMainLevel(codecIn.value),
                    channelBack |-> channelLevelToDb(dbToChannelLevel(codecIn.value)),
                    mainBack |-> mainLevelToDb(dbToMainLevel(codecIn.value))]
    /\ UNCHANGED <<connectionState, consoleInfo, socket, closePending,
                   autoReconnect, reconnectTimeout, dataBuffer, isProcessing,
                   schedVars, requestMap, responseTimers, initTimers, calls,
                   emitted, result, codecIn>>

NextConverters ==
    \/ LevelToDbAndBack
    \/ DbToLevelAndBack

SpecConverters == InitConverters /\ [][NextConverters]_vars

\* ---------------------------------------------------------------------------
\* Properties of the packet codec
\* ---------------------------------------------------------------------------
Frame(command, data) == [ok |-> TRUE, command |-> command, data |-> data]

Defect(b) ==
    IF Len(b) < 5 THEN "Packet too short"
    ELSE IF Len(b) # b[1] + 3 THEN "Byte count mismatch"
    ELSE IF b[2] # 255 THEN "Packet for incorrect device"
    ELSE IF b[Len(b)] # (256 - SumBytes(SubSeq(b, 3, Len(b) - 1))) % 256
         THEN "Checksum error"
    ELSE "none"

\* C4: parsePacket never returns a decoded frame for a malformed buffer, and
\* reports the error kind of the buffer's defect: "too short" for fewer than 5
\* bytes, else "byte count mismatch" when the length differs from byteCount+3,
\* else "incorrect device" when the device byte is not 255, else "checksum
\* error" when the trailing byte differs from the checksum recomputed over
\* command+payload; a buffer without defect is decoded.
C4_ParseErrors ==
    codecOut.kind = "parsed" =>
        LET b == codecIn.buffer
            r == codecOut.result
        IN  /\ r.ok <=> Defect(b) = "none"
            /\ ~r.ok => r.error = Defect(b)
            /\ r.ok => /\ r.command = b[3] * 256 + b[4]
                       /\ r.data = SubSeq(b, 5, Len(b) - 1)

C4_Witness ==
    /\ codecOut.kind = "parsed"
    /\ ~codecOut.result.ok
    /\ codecOut.result.error = "Checksum error"
    /\ Len(codecIn.buffer) = MaxBufLen

\* ---------------------------------------------------------------------------
\* Properties of the scheduler
\* ---------------------------------------------------------------------------
\* the step writes a command to the socket
Writes == Len(written') > Len(written)

\* the commands written so far from one lane, in the order of the writes
WrittenOf(lane) ==
    LET onLane == SelectSeq(written, LAMBDA w : w.lane = lane)
    IN  [i \in 1..Len(onLane) |-> onLane[i].call]

\* the calls enqueued so far on one lane, in the order they were enqueued
RECURSIVE EnqueuedOn(_, _)
EnqueuedOn(fader, n) ==
    IF n = 0 THEN <<>>
    ELSE IF calls[n].fader = fader THEN Append(EnqueuedOn(fader, n - 1), n)
    ELSE EnqueuedOn(fader, n - 1)

\* C1: any two consecutive socket writes of the scheduler, whichever lane
\* they come from, are at least globalCommandRateMs apart.
C1_GlobalSpacing ==
    [][(Writes /\ Len(written) > 0)
          => now - lastWriteAt >= globalCommandRateMs]_vars

C1_Witness ==
    /\ Len(written) >= 2
    /\ written[1].lane # written[2].lane
    /\ lastWriteAt = now

\* C2: any two consecutive socket writes of commands taken from the
\* fader-level lane are at least faderLevelRateMs apart, also when
\* general-lane commands are written in between.
C2_FaderSpacing ==
    [][(/\ Writes
        /\ written'[Len(written')].lane = "fader"
        /\ \E i \in 1..Len(written) : written[i].lane = "fader")
          => now - lastFaderWriteAt >= faderLevelRateMs]_vars

C2_Witness ==
    /\ Len(written) = 3
    /\ written[1].lane = "fader"
    /\ written[2].lane = "general"
    /\ written[3].lane = "fader"

\* C10: within each lane the commands are written to the socket in exactly
\* the order in which they were enqueued: the commands written from a lane,
\* followed by those still waiting in it, are the commands enqueued on it in
\* enqueue order.
C10_LaneFifo ==
    /\ WrittenOf("general") \o commandQueue = EnqueuedOn(FALSE, Len(calls))
    /\ WrittenOf("fader") \o faderLevelQueue = EnqueuedOn(TRUE, Len(calls))

\* two commands of the general lane are written, and a fader-lane command
\* enqueued after both has overtaken the second
C10_Witness ==
    /\ Len(written) = 3
    /\ written[1].lane = "general"
    /\ written[2].lane = "fader"
    /\ written[3].lane = "general"
    /\ written[2].call > written[3].call

\* ---------------------------------------------------------------------------
\* Properties of request correlation
\* ---------------------------------------------------------------------------
IsRead(c) == calls[c].command < 32768
Pending(c) == calls[c].status = "pending"
CallKey(c) ==
    IF Len(calls[c].data) >= 2
    THEN <<calls[c].command, calls[c].data[1] * 256 + calls[c].data[2]>>
    ELSE <<calls[c].command>>

\* the key of a reply: command & 0x7FFF, plus the leading payload id for
\* id-specific commands
GlobalCommands == {7, 8, 16, 20}
FrameKey(f) ==
    IF (f[1] % 32768) \in GlobalCommands \/ Len(f[2]) < 2
    THEN <<f[1] % 32768>>
    ELSE <<f[1] % 32768, f[2][1] * 256 + f[2][2]>>

\* the chunk carrying exactly the frame f
ChunkOf(f) == <<SOH>> \o createIncomingPacket(f[1], f[2])

\* C5: when several read requests with pairwise distinct keys are pending, a
\* decoded reply resolves exactly the pending call whose key equals the reply's key,
\* with the value decoded from that reply, and removes exactly that entry;
\* all other pending entries and calls are left unchanged.
C5_RepliesByKey ==
    [][\A f \in InboundFrames :
         (/\ Receive(ChunkOf(f))
          /\ f[1] < 32768
          /\ \E c1, c2 \in 1..Len(calls) : Pending(c1) /\ Pending(c2) /\ c1 # c2
          /\ \A c1, c2 \in 1..Len(calls) :
                (Pending(c1) /\ Pending(c2) /\ c1 # c2) => CallKey(c1) # CallKey(c2)
          /\ \E c \in 1..Len(calls) :
                Pending(c) /\ CallKey(c) = FrameKey(f) /\ MapHas(requestMap, CallKey(c)))
         => LET c == CHOOSE c \in 1..Len(calls) :
                        Pending(c) /\ CallKey(c) = FrameKey(f)
            IN  /\ calls'[c].status = "resolved"
                /\ (f[1] = READ_FADER_LEVEL /\ Len(f[2]) >= 4)
                      => calls'[c].value = f[2][3] * 256 + f[2][4]
                /\ \A d \in 1..Len(calls) : d # c => calls'[d] = calls[d]
                /\ requestMap' = SelectSeq(requestMap, LAMBDA e : e.call # c)]_vars

\* C6: a read request for which neither a matching reply nor a NAK arrives,
\* and for whose key no other request is registered meanwhile, is rejected
\* with a timeout error naming its command when the timer armed at its
\* registration (commandResponseTimeoutMs) fires, and its key has no pending
\* entry from that moment.
C6_TimeoutRejects ==
    [][\A t \in responseTimers :
         (/\ responseTimers' = responseTimers \ {t}
          /\ Pending(t.call)
          /\ ~calls[t.call].answered
          /\ \A c \in 1..Len(calls) :
                (c > t.call /\ IsRead(c)) => CallKey(c) # CallKey(t.call))
         => /\ calls'[t.call].status = "rejected"
            /\ calls'[t.call].value =
                  [error |-> "timed out", command |-> calls[t.call].command]
            /\ ~MapHas(requestMap', CallKey(t.call))]_vars

\* C7: right after disconnect() the pending-request map is empty and no read
\* call is left pending.
C7_DisconnectRejects ==
    [][Disconnect
         => /\ requestMap' = <<>>
            /\ \A c \in 1..Len(calls') : calls'[c].status # "pending"]_vars

\* C9: a write command (bit 15 set) resolves its call when it is placed on a
\* lane, whether or not it has been written to the socket, and stays so; it
\* has no pending-request entry and no response timer.
C9_WriteResolves ==
    \A c \in 1..Len(calls) :
        ~IsRead(c) =>
            /\ calls[c].status = "resolved"
            /\ calls[c].value = "undefined"
            /\ \A i \in 1..Len(requestMap) : requestMap[i].call # c
            /\ \A t \in responseTimers : t.call # c

\* a write call is resolved while its command still waits in a lane, and a
\* NAK has arrived since (it rejected the read call made before)
C9_Witness ==
    \E c \in 1..Len(calls) :
        /\ ~IsRead(c)
        /\ calls[c].status = "resolved"
        /\ \E i \in 1..Len(faderLevelQueue) : faderLevelQueue[i] = c
        /\ \E d \in 1..Len(calls) :
              /\ calls[d].status = "rejected"
              /\ calls[d].value.error = "NAK"

\* ---------------------------------------------------------------------------
\* Every call ends: the client over one connection with a fair event loop
\* (the clock advances, due timers run)
\* ---------------------------------------------------------------------------
SpecSessionFair ==
    /\ SpecSession
    /\ WF_vars(Tick)
    /\ WF_vars(ResponseTimerFire)
    /\ WF_vars(WakeTimerFire)
    /\ WF_vars(InitTimerFire)

\* C8: every read-command call eventually ends (resolved by a reply, or
\* rejected by a NAK, by its timeout or by disconnect): no call stays pending
\* forever.
C8_EveryCallEnds ==
    \A c \in 1..MaxSessionCalls :
        (Len(calls) >= c /\ calls[c].status = "pending")
            ~> (Len(calls) >= c /\ calls[c].status # "pending")

\* ---------------------------------------------------------------------------
\* Properties of the connection life cycle
\* ---------------------------------------------------------------------------
\* the full client with a fair event loop: the clock advances, due timers run
SpecFair ==
    /\ Spec
    /\ WF_vars(Tick)
    /\ WF_vars(ReconnectTimerFire)
    /\ WF_vars(ResponseTimerFire)
    /\ WF_vars(WakeTimerFire)
    /\ WF_vars(InitTimerFire)

StateChange(state) == <<"connectionStateChange", state>>

\* the step emits the event e
Emits(e) == \E i \in 1..Len(emitted') : emitted'[i] = e

\* C11: connect() called while the state is Connecting or Connected changes
\* neither the state, the socket, the reconnect timer, the lanes nor the
\* pending-request map, and emits no event.
C11_ConnectIdempotent ==
    [][(Connect /\ connectionState \in {"connecting", "connected"})
         => /\ UNCHANGED <<connectionState, socket, reconnectTimeout,
                           commandQueue, faderLevelQueue, requestMap>>
            /\ emitted' = <<>>]_vars

\* connect() has returned early on a connected client with a request pending
C11_Witness ==
    /\ result = AlreadyConnecting
    /\ connectionState = "connected"
    /\ requestMap # <<>>

\* C12: disconnect() leaves no reconnect timer pending and auto-reconnect
\* disabled, and from then on no step arms a reconnect timer or makes the
\* state Reconnecting, whatever follows.
C12_DisconnectIsFinal ==
    [][(Disconnect \/ ~autoReconnect)
         => /\ ~autoReconnect'
            /\ reconnectTimeout' = NoTimer
            /\ connectionState' # "reconnecting"]_vars

\* after a disconnect() that destroyed an open socket, a later connect() has
\* connected again: a remote close of this connection is the next event
C12_Witness ==
    /\ ~autoReconnect
    /\ closePending
    /\ connectionState = "connected"
    /\ socket = "open"

\* C13: with auto-reconnect enabled, when the socket closes while Connected
\* the state goes to Disconnected and then to Reconnecting, a reconnect timer
\* of reconnectInterval is armed, that timer calls connect() no earlier than
\* its deadline, and the state eventually becomes Connecting (unless
\* disconnect() is called).
C13_AutoReconnect ==
    /\ [][(SocketClose /\ connectionState = "connected" /\ autoReconnect)
            => /\ emitted' = << <<"disconnect">>, StateChange("disconnected"),
                                StateChange("reconnecting") >>
               /\ connectionState' = "reconnecting"
               /\ reconnectTimeout' = now + reconnectInterval]_vars
    /\ [][(ReconnectTimerFire /\ connectionState = "reconnecting")
            => /\ reconnectTimeout <= now
               /\ connectionState' = "connecting"
               /\ socket' = "dialing"]_vars
    /\ (connectionState = "reconnecting" /\ autoReconnect)
            ~> (connectionState = "connecting" \/ ~autoReconnect)

\* a connection that had been open is being re-established with
\* auto-reconnect enabled
C13_Witness ==
    /\ autoReconnect
    /\ connectionState = "connecting"
    /\ socket = "dialing"
    /\ emitted = <<StateChange("connecting")>>
    /\ Len(calls) + BagCardinality(initTimers) > 0

\* C14: a transport error while the state is Connecting moves the state to
\* Error (the first step of the path that leads, with auto-reconnect enabled,
\* to a further connection attempt).
C14_ConnectErrorRetries ==
    [][(SocketConnectError /\ connectionState = "connecting")
         => /\ connectionState' = "error"
            /\ Emits(StateChange("error"))]_vars

\* C15: 'ready' is emitted only after the initialization handshake of the
\* connection has finished: a console-info request has been written to the
\* socket and is no longer pending.
C15_ReadyAfterHandshake ==
    [][Emits(<<"ready">>)
         => \E c \in 1..Len(calls') :
               /\ calls'[c].command = READ_CONSOLE_INFO
               /\ calls'[c].status # "pending"
               /\ \E i \in 1..Len(written') : written'[i].call = c]_vars

\* C16: when the console-info request of a connection ends while the client
\* is connected, the cached ConsoleInfo is non-null: the decoded reply when
\* the request was resolved, the defaults when it failed or timed out.
C16_ConsoleInfoCached ==
    [][\A c \in 1..Len(calls) :
         (/\ calls[c].command = READ_CONSOLE_INFO
          /\ calls[c].status = "pending"
          /\ calls'[c].status # "pending"
          /\ connectionState' = "connected")
         => consoleInfo' = IF calls'[c].status = "resolved"
                           THEN <<calls'[c].value>>
                           ELSE <<DefaultConsoleInfo>>]_vars

\* ---------------------------------------------------------------------------
\* Properties of the public methods
\* ---------------------------------------------------------------------------
\* the protocol version a command needs: 20 for the aux-routing family, 21
\* for the main-routing and stereo-image family (0x8015 included), else 1
RequiredVersion(command) ==
    IF command \in {20, 21, 22, 32788, 32789, 32790} THEN 21
    ELSE IF command \in {16, 17, 18, 19, 32784, 32785, 32786, 32787} THEN 20
    ELSE 1

\* the step leaves the lanes, the pending requests, the timers, the socket
\* writes and the recorded calls as they are
NothingSent ==
    UNCHANGED <<commandQueue, faderLevelQueue, requestMap, responseTimers,
                wakeTimers, written, calls>>

\* C17: a command that needs protocol version 20 (aux routing) or 21 (main
\* routing, stereo image, route-to-main write 0x8015) issued while the
\* negotiated version is lower is rejected with an error; it gets no lane
\* entry and no pending entry and nothing of it is written.
C17_VersionGate ==
    [][\A m \in Methods :
         (/\ ApiMethod(m)
          /\ connectionState = "connected"
          /\ Validate(m) = NoResult
          /\ consoleInfo # <<>>
          /\ consoleInfo[1].protocolVersion < RequiredVersion(RequestOf(m).command))
         => /\ result' # NoResult
            /\ NothingSent]_vars

\* C18: a public control method called while the state is not Connected is
\* rejected with the 'not connected' error and has no other effect: lanes,
\* pending-request map, timers and socket writes are unchanged.
C18_NotConnectedRejects ==
    [][\A req \in Requests :
         (ApiCall(req) /\ connectionState # "connected")
         => /\ result' = NotConnected(connectionState)
            /\ NothingSent
            /\ initTimers' = initTimers]_vars

\* a method has been rejected while the client waits to reconnect, an earlier
\* request still being registered
C18_Witness ==
    /\ result = NotConnected("reconnecting")
    /\ requestMap # <<>>

\* C19: while Connected, setFaderLevel and getFaderLevel with a fader id
\* outside 1..maxFaderCount, and setFaderLevel with a level outside 0..1023,
\* are rejected with an error naming the value and the range, and nothing is
\* enqueued, registered or written; with arguments in range the call is
\* accepted and its command is handed to the scheduler.
C19_ArgumentValidation ==
    [][\A m \in Methods :
         (/\ ApiMethod(m)
          /\ connectionState = "connected"
          /\ m.name \in {"getFaderLevel", "setFaderLevel"})
         => IF m.faderId \notin 1..maxFaderCount
            THEN /\ result' = <<"Error", "Invalid fader ID", m.faderId, 1,
                                maxFaderCount>>
                 /\ NothingSent
            ELSE IF m.name = "setFaderLevel" /\ m.level \notin 0..1023
            THEN /\ result' = <<"Error", "Invalid fader level", m.level, 0, 1023>>
                 /\ NothingSent
            ELSE /\ result' = NoResult
                 /\ Len(calls') = Len(calls) + 1
                 /\ calls'[Len(calls')].data[1] * 256
                       + calls'[Len(calls')].data[2] = m.faderId
                 /\ calls'[Len(calls')].command =
                       (IF m.name = "setFaderLevel" THEN WRITE_FADER_LEVEL
                        ELSE READ_FADER_LEVEL)
                 /\ m.name = "setFaderLevel"
                       => calls'[Len(calls')].data[3] * 256
                            + calls'[Len(calls')].data[4] = m.level]_vars

\* setFaderLevel(1, 1024) has been rejected after setFaderLevel(1, 1023) was
\* accepted
C19_Witness ==
    /\ connectionState = "connected"
    /\ result = <<"Error", "Invalid fader level", 1024, 0, 1023>>
    /\ \E c \in 1..Len(calls) :
          /\ calls[c].command = WRITE_FADER_LEVEL
          /\ calls[c].data = <<0, 1, 3, 255>>

\* C20: for every command code and payload, the command bytes, the payload
\* bytes and the checksum byte of the packet built by buildPacket sum to 0
\* modulo 256.
C20_ChecksumSumsToZero ==
    codecOut.kind = "roundtrip" =>
        LET packet == codecOut.packet
        IN  /\ Len(packet) = 6 + Len(codecIn.data)
            /\ SumBytes(SubSeq(packet, 4, Len(packet))) = 0

\* a packet whose command and payload bytes sum past 255 has been built
C20_Witness ==
    /\ codecOut.kind = "roundtrip"
    /\ codecIn.command = 65535
    /\ codecIn.data = <<255, 128, 255>>

\* C21: buildPacket(command, payload) yields the bytes [0xF1, 2+len(payload),
\* 0x00, command high byte, command low byte, payload..., checksum], of length
\* 6+len(payload); for command 0x0008 with empty payload these are the 6
\* bytes [0xF1, 0x02, 0x00, 0x00, 0x08, cs] with cs = 0xF8.
C21_PacketLayout ==
    codecOut.kind = "roundtrip" =>
        LET packet == codecOut.packet
            payload == codecIn.data
            n == Len(payload)
        IN  /\ Len(packet) = 6 + n
            /\ packet[1] = 241
            /\ packet[2] = 2 + n
            /\ packet[3] = 0
            /\ packet[4] * 256 + packet[5] = codecIn.command
            /\ packet[4] \in 0..255 /\ packet[5] \in 0..255
            /\ \A i \in 1..n : packet[5 + i] = payload[i]
            /\ packet[6 + n] \in 0..255
            /\ (packet[4] + packet[5] + SumBytes(payload) + packet[6 + n]) % 256 = 0
            /\ (codecIn.command = 8 /\ n = 0) => packet = <<241, 2, 0, 0, 8, 248>>

\* the read-console-info packet has been built
C21_Witness ==
    /\ codecOut.kind = "roundtrip"
    /\ codecIn.command = READ_CONSOLE_INFO
    /\ codecIn.data = <<>>
    /\ Len(codecOut.packet) = 6

\* C22: an inbound frame with command 0x0000 and payload [0x00, 0x01] received
\* while getFaderLevel(1) is pending decodes to {command: 0, payload: [0, 1]},
\* is correlated to that request, and resolves the call with the decoded level.
C22_ShortLevelReply ==
    [][(/\ Receive(ChunkOf(<<READ_FADER_LEVEL, <<0, 1>> >>))
        /\ dataBuffer = <<>>
        /\ MapHas(requestMap, <<READ_FADER_LEVEL, 1>>)
        /\ Pending(MapGet(requestMap, <<READ_FADER_LEVEL, 1>>)))
       => LET c == MapGet(requestMap, <<READ_FADER_LEVEL, 1>>)
          IN  /\ parsePacket(createIncomingPacket(READ_FADER_LEVEL, <<0, 1>>))
                    = Frame(0, <<0, 1>>)
              /\ calls'[c].answered
              /\ ~MapHas(requestMap', <<READ_FADER_LEVEL, 1>>)
              /\ calls'[c].status = "resolved"]_vars

\* ---------------------------------------------------------------------------
\* Properties of the replies to the public read methods
\* ---------------------------------------------------------------------------
\* C23: getFaderCut(faderId), once resolved by a matching reply, resolves to
\* true exactly when the payload byte at offset 2 is 0, and to false when it
\* is 1.
C23_CutDecoding ==
    [][\A b \in {0, 1} :
         (/\ Receive(ChunkOf(<<READ_FADER_CUT, U16(1) \o <<b>> >>))
          /\ dataBuffer = <<>>
          /\ MapHas(requestMap, <<READ_FADER_CUT, 1>>)
          /\ Pending(MapGet(requestMap, <<READ_FADER_CUT, 1>>)))
         => LET c == MapGet(requestMap, <<READ_FADER_CUT, 1>>)
            IN  /\ calls'[c].status = "resolved"
                /\ getFaderCutResult(calls'[c].value) = (b = 0)]_vars

\* the frame f answers the read call c: same command and, when the request
\* carries an id, the same id in front of the payload
IsReplyTo(f, c) ==
    /\ f[1] = calls[c].command
    /\ Len(calls[c].data) >= 2
          => Len(f[2]) >= 2 /\ SubSeq(f[2], 1, 2) = SubSeq(calls[c].data, 1, 2)

\* C28: for every read command (global and id-specific, the stereo image
\* included) the key processIncomingMessage derives from the reply equals the
\* key sendCommand registered the request under, so the reply is correlated to
\* the pending call.
C28_ReplyKeyEqualsRequestKey ==
    [][\A f \in ApiFrames : \A c \in 1..Len(calls) :
         (/\ Receive(ChunkOf(f))
          /\ dataBuffer = <<>>
          /\ IsRead(c) /\ Pending(c) /\ IsReplyTo(f, c)
          /\ MapHas(requestMap, RequestKey(calls[c].command, calls[c].data))
          /\ MapGet(requestMap, RequestKey(calls[c].command, calls[c].data)) = c)
         => /\ ReplyKey(f[1], f[2]) = RequestKey(calls[c].command, calls[c].data)
            /\ calls'[c].answered]_vars

\* C29: a pending entry is removed only by a matching reply, a NAK, its own
\* timer or its replacement: when an earlier call A for a key is already
\* settled and a later call B for the same key is pending, the timer of A
\* leaves the entry of B in place and B stays pending with its own timer.
C29_OwnTimerOnly ==
    [][\A t \in responseTimers :
         (/\ ResponseTimerFire
          /\ responseTimers' = responseTimers \ {t}
          /\ ~Pending(t.call)
          /\ MapHas(requestMap, t.key)
          /\ MapGet(requestMap, t.key) # t.call
          /\ Pending(MapGet(requestMap, t.key)))
         => /\ requestMap' = requestMap
            /\ calls' = calls]_vars

\* C30: the map holds at most one entry per key; a second registration for a
\* key replaces the first; and a matching reply that arrives while the call
\* registered last is pending and within its timeout resolves that call and
\* leaves the earlier call as it was.
C30_LastRegistrationWins ==
    /\ [](\A i, j \in 1..Len(requestMap) :
             requestMap[i].key = requestMap[j].key => i = j)
    /\ [][\A req \in Requests :
           (/\ SessionCall(req)
            /\ Len(calls') = Len(calls) + 1
            /\ req.command < 32768
            /\ MapHas(requestMap, RequestKey(req.command, req.data)))
           => /\ Len(requestMap') = Len(requestMap)
              /\ MapGet(requestMap', RequestKey(req.command, req.data))
                    = Len(calls')]_vars
    /\ [][\A f \in InboundFrames : \A b \in 1..Len(calls) :
           (/\ Receive(ChunkOf(f))
            /\ dataBuffer = <<>>
            /\ f[1] < 32768
            /\ IsRead(b) /\ Pending(b) /\ CallKey(b) = FrameKey(f)
            /\ \E t \in responseTimers : t.call = b
            /\ \E a \in 1..(b - 1) : IsRead(a) /\ CallKey(a) = CallKey(b)
            /\ \A d \in (b + 1)..Len(calls) : IsRead(d) => CallKey(d) # CallKey(b))
           => /\ calls'[b].status = "resolved"
              /\ \A a \in 1..Len(calls) : a # b => calls'[a] = calls[a]]_vars

\* ---------------------------------------------------------------------------
\* Properties of the two lanes under load
\* ---------------------------------------------------------------------------
\* a general-lane command was written in the current tick
GeneralWrittenNow == lastWriteAt = now /\ lastFaderWriteAt # now

\* C27: while the client stays connected and faderLevelRateMs is at least
\* globalCommandRateMs, a command waiting in the general lane is eventually
\* written, even if the fader lane is kept non-empty by continuous enqueues.
C27_GeneralLaneNotStarved ==
    (commandQueue # <<>>) ~> GeneralWrittenNow

\* ---------------------------------------------------------------------------
\* Properties of the level converters
\* ---------------------------------------------------------------------------
RatEq(a, b) == a.n * b.d = b.n * a.d
Abs(k) == IF k < 0 THEN -k ELSE k
\* |a - db| < 0.05
CloseTo(a, db) == Abs(a.n - db * a.d) * 20 < a.d

\* C24 as stated: dbToChannelLevel(-100)=0, dbToChannelLevel(10)=1023,
\* channelLevelToDb(0)=-100, channelLevelToDb(1023)=10, dbToMainLevel(-100)=0
\* and mainLevelToDb(1023)=0.
C24_EndpointsAsStated ==
    /\ (codecOut.kind = "fromDb" /\ codecIn.value = RatOf(-100))
          => codecOut.channel = RatOf(0) /\ codecOut.main = RatOf(0)
    /\ (codecOut.kind = "fromDb" /\ codecIn.value = RatOf(10))
          => codecOut.channel = RatOf(1023)
    /\ (codecOut.kind = "fromLevel" /\ codecIn.value = RatOf(0))
          => RatEq(codecOut.channel, RatOf(-100))
    /\ (codecOut.kind = "fromLevel" /\ codecIn.value = RatOf(1023))
          => RatEq(codecOut.channel, RatOf(10)) /\ RatEq(codecOut.main, RatOf(0))

\* C24: dbToChannelLevel(-100)=0, dbToChannelLevel(10)=1004 (the lowest level
\* of the +10 dB plateau, not 1023), channelLevelToDb(0)=-100,
\* channelLevelToDb(1023)=10, dbToMainLevel(-100)=0 and mainLevelToDb(1023)=0;
\* 1023 is returned for dB values above 10.
C24_Endpoints ==
    /\ (codecOut.kind = "fromDb" /\ codecIn.value = RatOf(-100))
          => codecOut.channel = RatOf(0) /\ codecOut.main = RatOf(0)
    /\ (codecOut.kind = "fromDb" /\ codecIn.value = RatOf(10))
          => codecOut.channel = RatOf(1004)
    /\ (codecOut.kind = "fromDb" /\ RatLess(RatOf(10), codecIn.value))
          => codecOut.channel = RatOf(1023)
    /\ (codecOut.kind = "fromLevel" /\ codecIn.value = RatOf(0))
          => RatEq(codecOut.channel, RatOf(-100))
    /\ (codecOut.kind = "fromLevel" /\ codecIn.value = RatOf(1023))
          => RatEq(codecOut.channel, RatOf(10)) /\ RatEq(codecOut.main, RatOf(0))

\* +10 dB has been converted to a channel level
C24_Witness ==
    /\ codecOut.kind = "fromDb"
    /\ codecIn.value = RatOf(10)
    /\ codecOut.channel = RatOf(1004)

Flattened(level) ==
    IF level <= 40 THEN 0 ELSE IF level > 1004 THEN 1004 ELSE level

ChannelCases ==
    {<<-100, 0>>, <<-60, 80>>, <<-40, 162>>, <<-20, 400>>, <<-10, 519>>,
     <<-5, 639>>, <<0, 760>>, <<5, 883>>, <<10, 1004>>}
MainCases ==
    {<<-100, 0>>, <<-70, 80>>, <<-50, 162>>, <<-20, 519>>, <<-10, 760>>,
     <<0, 1004>>}

\* C26: dbToChannelLevel maps -100, -60, -40, -20, -10, -5, 0, 5, 10 dB to the
\* levels 0, 80, 162, 400, 519, 639, 760, 883, 1004 and dbToMainLevel maps
\* -100, -70, -50, -20, -10, 0 dB to 0, 80, 162, 519, 760, 1004; converting
\* each level back returns the original dB value within 0.05 dB.
C26_TestTable ==
    codecOut.kind = "fromDb" =>
        /\ \A case \in ChannelCases :
              codecIn.value = RatOf(case[1])
                 => /\ codecOut.channel = RatOf(case[2])
                    /\ CloseTo(codecOut.channelBack, case[1])
        /\ \A case \in MainCases :
              codecIn.value = RatOf(case[1])
                 => /\ codecOut.main = RatOf(case[2])
                    /\ CloseTo(codecOut.mainBack, case[1])

\* ---------------------------------------------------------------------------
\* Properties of the response timeout
\* ---------------------------------------------------------------------------
\* the command of call c has been written to the socket
Written(c) == \E i \in 1..Len(written) : written[i].call = c

\* C31: no read call is rejected with a timeout error before its command has
\* been written to the socket: the time a command waits in a lane does not
\* count against commandResponseTimeoutMs.
C31_TimeoutCountsFromWrite ==
    \A c \in 1..Len(calls) :
        (/\ IsRead(c)
         /\ calls[c].status = "rejected"
         /\ calls[c].value.error = "timed out")
        => Written(c)

\* ---------------------------------------------------------------------------
\* Properties of the NAK handling
\* ---------------------------------------------------------------------------
\* call c is rejected by a NAK in this step
NakRejects(c) ==
    /\ calls[c].status = "pending"
    /\ calls'[c].status = "rejected"
    /\ calls'[c].value.error = "NAK"

\* C32: a NAK with a reason byte rejects exactly one pending request, the one
\* registered earliest among those still pending, with the decoded reasons;
\* its entry is removed and every other entry and call is left as it was.
C32_NakRejectsEarliest ==
    [][\A c \in 1..Len(calls) :
          NakRejects(c) =>
             /\ \E i \in 1..Len(requestMap) : requestMap[i].call = c
             /\ \A i \in 1..Len(requestMap) : requestMap[i].call >= c
             /\ calls'[c].value.reasons = <<"Command Not Supported">>
             /\ \A d \in 1..Len(calls) : d # c => calls'[d] = calls[d]
             /\ \A i \in 1..Len(requestMap) :
                   requestMap[i].call # c
                   => \E j \in 1..Len(requestMap') :
                          requestMap'[j] = requestMap[i]
             /\ Len(requestMap') = Len(requestMap) - 1]_vars

\* ---------------------------------------------------------------------------
\* The inbound path alone: a connected client, the handshake long over,
\* receives a byte stream that the socket delivers in chunks of any size.
\*   codecIn  = the units of the stream the console sends
\*   codecOut = the number of its bytes the socket has delivered
\* ---------------------------------------------------------------------------
MaxStreamUnits == 2
MaxInboundCalls == 1

READ_FADER_LEVEL_Request ==
    [command |-> READ_FADER_LEVEL, data |-> U16(1), fader |-> FALSE]

\* frames as the console sends them, SOH included
ConsoleFrame(command, data) == <<SOH>> \o createIncomingPacket(command, data)

LevelChangeFrame == ConsoleFrame(WRITE_FADER_LEVEL, U16(1) \o U16(SomeLevel))
CutChangeFrame == ConsoleFrame(WRITE_FADER_CUT, U16(1) \o <<1>>)
LevelReplyFrame == ConsoleFrame(READ_FADER_LEVEL, U16(1) \o U16(SomeLevel))
ShortLevelReplyFrame == ConsoleFrame(READ_FADER_LEVEL, U16(1))

WellFormedFrames ==
    {LevelChangeFrame, CutChangeFrame, LevelReplyFrame, ShortLevelReplyFrame}

\* frames parsePacket refuses: a wrong checksum, a frame addressed to the
\* console, and a byte count too small for a command
BadChecksumFrame ==
    [LevelChangeFrame EXCEPT ![Len(LevelChangeFrame)] = (@ + 1) % 256]
WrongDeviceFrame == [CutChangeFrame EXCEPT ![3] = DEVICE_ID_CALREC]
TooShortFrame == <<SOH, 0, DEVICE_ID_CONTROLLER, 0>>

CorruptFrames == {BadChecksumFrame, WrongDeviceFrame, TooShortFrame}

StreamUnits == WellFormedFrames \cup CorruptFrames \cup {<<ACK>>, <<NAK, 1>>}

Streams == UNION {[1..k -> StreamUnits] : k \in 1..MaxStreamUnits}

RECURSIVE Flatten(_)
Flatten(units) ==
    IF units = <<>> THEN <<>> ELSE Head(units) \o Flatten(Tail(units))

StreamBytes == Flatten(codecIn)

InitInbound ==
    /\ connectionState = "connected"
    /\ consoleInfo = <<>>
    /\ socket = "open"
    /\ closePending = FALSE
    /\ autoReconnect = FALSE
    /\ reconnectTimeout = NoTimer
    /\ dataBuffer = <<>>
    /\ commandQueue = <<>>
    /\ faderLevelQueue = <<>>
    /\ isProcessing = FALSE
    /\ lastFaderLevelSent = LongAgoFader
    /\ lastCommandSent = LongAgoCommand
    /\ requestMap = <<>>
    /\ responseTimers = {}
    /\ wakeTimers = EmptyBag
    /\ initTimers = EmptyBag
    /\ calls = <<>>
    /\ written = <<>>
    /\ lastWriteAt = LongAgoCommand
    /\ lastFaderWriteAt = LongAgoFader
    /\ emitted = <<>>
    /\ result = NoResult
    /\ codecIn \in Streams
    /\ codecOut = 0

\* the application calls getFaderLevel(1)
InboundCall == Call(READ_FADER_LEVEL_Request, MaxInboundCalls)

\* the socket's 'data' event with the next n bytes of the stream; the events
\* handleData emits are kept in emitted
Deliver(n) ==
    /\ socket = "open"
    /\ codecOut + n <= Len(StreamBytes)
    /\ LET chunk == Slice(StreamBytes, codecOut, codecOut + n)
           r == handleData(dataBuffer \o chunk,
                    [requestMap |-> requestMap, calls |-> calls,
                     emitted |-> <<>>, consoleInfo |-> consoleInfo])
       IN  /\ dataBuffer' = r.buf
           /\ requestMap' = r.S.requestMap
           /\ calls' = r.S.calls
           /\ consoleInfo' = r.S.consoleInfo
           /\ emitted' = r.S.emitted
    /\ result' = NoResult
    /\ codecOut' = codecOut + n
    /\ UNCHANGED <<connectionState, socket, closePending, autoReconnect,
                   reconnectTimeout, isProcessing, schedVars, responseTimers,
                   initTimers, codecIn>>

NextInbound ==
    \/ InboundCall
    \/ \E n \in 1..Len(StreamBytes) : Deliver(n)

SpecInbound == InitInbound /\ [][NextInbound]_vars

\* ---------------------------------------------------------------------------
\* Aux send routing: the payload setAuxRouting builds and the decoding of an
\* aux-send-routing reply, as pure functions of the aux id, the routes and
\* options.maxFaderCount
\* ---------------------------------------------------------------------------
MaxRouteLen == 3
MaxAuxId == 2
MaxRoutingFaders == 18

\* the payload of setAuxRouting(auxId, routes) (client.ts 1355-1367):
\* Buffer.alloc(26), data[0] = auxId, data[1] = 0, then 24 bytes of bitmap
setAuxRoutingData(auxId, routes) ==
    <<auxId % 256, 0>> \o [b \in 1..24 |-> RouteByte(routes, b - 1)]

RoutingInputs ==
    {[kind |-> "routing", auxId |-> auxId, routes |-> routes,
      maxFaders |-> maxFaders] :
        auxId \in 0..MaxAuxId,
        routes \in SeqsUpTo(BOOLEAN, MaxRouteLen),
        maxFaders \in 1..MaxRoutingFaders}

InitRouting ==
    /\ ClientInit
    /\ codecIn \in RoutingInputs
    /\ codecOut = CodecIdle

\* setAuxRouting(auxId, routes) up to its sendCommand; it throws when there
\* are more routes than faders
BuildAuxRouting ==
    /\ codecOut = CodecIdle
    /\ codecIn.kind = "routing"
    /\ codecOut' = IF Len(codecIn.routes) > codecIn.maxFaders
                   THEN [kind |-> "thrown"]
                   ELSE [kind |-> "payload",
                         data |-> setAuxRoutingData(codecIn.auxId, codecIn.routes)]
    /\ UNCHANGED <<connectionState, consoleInfo, socket, closePending,
                   autoReconnect, reconnectTimeout, dataBuffer, isProcessing,
                   schedVars, requestMap, responseTimers, initTimers, calls,
                   emitted, result, codecIn>>

\* the payload decoded as the payload of an aux-send-routing reply
DecodeAuxRouting ==
    /\ codecOut.kind = "payload"
    /\ codecOut' = [kind |-> "decoded",
                    data |-> codecOut.data,
                    routes |-> parseAuxSendRouting(codecOut.data,
                                                   codecIn.maxFaders)]
    /\ UNCHANGED <<connectionState, consoleInfo, socket, closePending,
                   autoReconnect, reconnectTimeout, dataBuffer, isProcessing,
                   schedVars, requestMap, responseTimers, initTimers, calls,
                   emitted, result, codecIn>>

NextRouting ==
    \/ BuildAuxRouting
    \/ DecodeAuxRouting

SpecRouting == InitRouting /\ [][NextRouting]_vars

\* ---------------------------------------------------------------------------
\* Connections in a row: the client of Spec with write commands only, room
\* for the calls of two connections, and a console whose frame the socket
\* delivers in two pieces
\* ---------------------------------------------------------------------------
MaxReconnectCalls == 3
MaxBuffered == 10

\* setFaderLevel(1, level) and setFaderCut(1, false)
WriteRequests == {req \in Requests : req.command >= 32768}

FrameHead == Slice(LevelChangeFrame, 0, 4)
FrameTail == Slice(LevelChangeFrame, 4, Len(LevelChangeFrame))

PartialChunks == {FrameHead, FrameTail}

ReconnectCall(req) == Call(req, MaxReconnectCalls)

ReconnectOpen == Open(MaxReconnectCalls)

\* the socket's 'data' event with a piece of a frame
ReceivePiece(chunk) ==
    /\ Len(dataBuffer) + Len(chunk) <= MaxBuffered
    /\ Receive(chunk)

NextReconnect ==
    \/ Connect
    \/ ReconnectOpen
    \/ SocketConnectError
    \/ SocketError
    \/ SocketClose
    \/ StaleClose
    \/ Disconnect
    \/ ReconnectTimerFire
    \/ InitTimerFire
    \/ \E req \in WriteRequests : ReconnectCall(req)
    \/ \E chunk \in PartialChunks : ReceivePiece(chunk)
    \/ ResponseTimerFire
    \/ WakeTimerFire
    \/ Tick

SpecReconnect == Init /\ [][NextReconnect]_vars

\* ---------------------------------------------------------------------------
\* Properties of handleData
\* ---------------------------------------------------------------------------
\* a 'data' event happens in this step
DataEvent == codecOut' > codecOut

\* the buffer handleData works on in this step: what was left over and then
\* the chunk
Incoming == dataBuffer \o Slice(StreamBytes, codecOut, codecOut')

\* C33: a NAK with its reason byte that arrives while no request is pending
\* makes the client emit an error event, and its two bytes are consumed.
C33_NakWithoutRequest ==
    [][(/\ DataEvent
        /\ Len(Incoming) > 1
        /\ Incoming[1] = NAK
        /\ requestMap = <<>>)
       => /\ \E i \in 1..Len(emitted') : emitted'[i].type = "error"
          /\ dataBuffer' = Slice(Incoming, 2, Len(Incoming))]_vars

\* the handler state before the step, no event emitted yet
HandlerState ==
    [requestMap |-> requestMap, calls |-> calls, emitted |-> <<>>,
     consoleInfo |-> consoleInfo]

\* the step leaves the buffer, the requests, the calls and the events as r
\* tells
StepYields(r) ==
    /\ dataBuffer' = r.buf
    /\ requestMap' = r.S.requestMap
    /\ calls' = r.S.calls
    /\ consoleInfo' = r.S.consoleInfo
    /\ emitted' = r.S.emitted

\* C34: when the buffer starts with ACK, that one byte is consumed without an
\* event or a settled request, and the same pass goes on with the bytes that
\* follow: a complete frame behind the ACK is dispatched in this pass.
C34_AckThenContinue ==
    [][(/\ DataEvent
        /\ Len(Incoming) > 0
        /\ Incoming[1] = ACK)
       => StepYields(PacketLoop(Tail(Incoming), HandlerState))]_vars

\* number of stream bytes up to the end of unit i
UnitEnd(i) == Len(Flatten(SubSeq(codecIn, 1, i)))

\* the units whose last byte has arrived once `to` bytes are delivered
CompleteBy(to) == {i \in 1..Len(codecIn) : UnitEnd(i) <= to}

\* the units whose last byte arrives in this step
Completed == CompleteBy(codecOut') \ CompleteBy(codecOut)

\* the bytes of an incomplete trailing unit once `to` bytes are delivered
Trailing(to) == Slice(StreamBytes, UnitEnd(Cardinality(CompleteBy(to))), to)

\* the error parsePacket reports for a frame it refuses
DecodeError(unit) ==
    IF unit = BadChecksumFrame THEN "Checksum error"
    ELSE IF unit = WrongDeviceFrame THEN "Packet for incorrect device"
    ELSE "Packet too short"

\* what the dispatch of one frame does to the handler state: a frame that
\* fails to decode adds an error event and nothing else
Dispatch(S, unit) ==
    IF unit \in CorruptFrames
    THEN [S EXCEPT !.emitted =
              Append(@, [type |-> "error", error |-> DecodeError(unit)])]
    ELSE LET parsed == parsePacket(Tail(unit))
         IN  processIncomingMessage(S, parsed.command, parsed.data)

\* the units from..to of the stream dispatched in stream order
RECURSIVE DispatchAll(_, _, _)
DispatchAll(S, from, to) ==
    IF from > to THEN S
    ELSE DispatchAll(Dispatch(S, codecIn[from]), from + 1, to)

\* every frame whose last byte arrives in this step is dispatched in it, in
\* stream order, and the bytes behind the last of them stay buffered
DispatchesCompleted ==
    StepYields([buf |-> Trailing(codecOut'),
                S |-> DispatchAll(HandlerState,
                                  Cardinality(CompleteBy(codecOut)) + 1,
                                  Cardinality(CompleteBy(codecOut')))])

\* frames whose payload parseResponseData decodes without an exception
SoundFrames == {LevelChangeFrame, CutChangeFrame, LevelReplyFrame}

\* C35: when a frame sliced from the buffer fails to decode, an error event is
\* emitted, the connection state and the socket stay as they are, no pending
\* request is settled by it, and the pass goes on: the frames that follow it
\* in the buffer are dispatched in the same pass.
C35_DecodeErrorThenContinue ==
    [][(/\ DataEvent
        /\ \A i \in 1..Len(codecIn) : codecIn[i] \in CorruptFrames \cup SoundFrames
        /\ \E i \in Completed : codecIn[i] \in CorruptFrames)
       => /\ connectionState' = connectionState
          /\ socket' = socket
          /\ DispatchesCompleted]_vars

\* a pass has emitted the error of a refused frame and then the event of the
\* frame behind it, while a request stays pending
C35_Witness ==
    /\ Len(emitted) = 2
    /\ emitted[1].type = "error"
    /\ emitted[2].type = "faderCutChange"
    /\ requestMap # <<>>
    /\ connectionState = "connected"
    /\ socket = "open"

\* C36: for a stream made only of well-formed frames, however the socket
\* splits it into chunks, every frame is dispatched exactly once, in stream
\* order, in the call that delivers its last byte, and the bytes of an
\* incomplete trailing frame stay buffered.
C36_SplitInvariance ==
    [][(/\ DataEvent
        /\ \A i \in 1..Len(codecIn) : codecIn[i] \in WellFormedFrames)
       => DispatchesCompleted]_vars

\* ---------------------------------------------------------------------------
\* Properties of the lanes over the life of the connection
\* ---------------------------------------------------------------------------
\* C40: a command is written to the socket only while the state is Connected
\* and a socket exists; in every other state no write happens, whichever
\* timer of the scheduler fires.
C40_WritesOnlyWhenConnected ==
    [][written' # written
       => /\ connectionState' = "connected"
          /\ socket' = "open"]_vars

\* a command waits in a lane of a client that is not connected, and the timer
\* armed for it has run without writing it
C40_Witness ==
    /\ connectionState # "connected"
    /\ Len(commandQueue) + Len(faderLevelQueue) > 0
    /\ wakeTimers = EmptyBag
    /\ written # <<>>

\* the client enters Connected in this step
EntersConnected == connectionState # "connected" /\ connectionState' = "connected"

\* C37: on every entry into Connected, also after a reconnect, the reassembly
\* buffer is empty, so that bytes left over from the previous connection are
\* never combined with bytes of the new one.
C37_BufferEmptyOnConnect ==
    [][EntersConnected => dataBuffer' = <<>>]_vars

\* the calls waiting in the two lanes
Queued == {commandQueue[i] : i \in 1..Len(commandQueue)}
              \cup {faderLevelQueue[i] : i \in 1..Len(faderLevelQueue)}

QueuedNext == {commandQueue'[i] : i \in 1..Len(commandQueue')}
                  \cup {faderLevelQueue'[i] : i \in 1..Len(faderLevelQueue')}

\* C39: the lanes survive a disconnect.  A queued command leaves its lane only
\* by being written to the socket, whatever connect(), disconnect() and
\* handleDisconnect do; and when the client is Connected again with a command
\* still queued, that step writes a command or arms the timer that will.
C39_LanesSurviveDisconnect ==
    [][/\ \A c \in Queued : c \in QueuedNext \/ \E i \in 1..Len(written') :
                                                   written'[i].call = c
       /\ connectionState' # "connected"
          => /\ commandQueue' = commandQueue
             /\ faderLevelQueue' = faderLevelQueue
       /\ (EntersConnected /\ Queued # {})
          => \/ Len(written') = Len(written) + 1
             \/ BagCardinality(wakeTimers') = BagCardinality(wakeTimers) + 1]_vars

\* connect() has just finished and has written, in this very tick, a command
\* that was queued before the connection came up
C39_Witness ==
    /\ \E i \in 1..Len(emitted) : emitted[i] = <<"connect">>
    /\ connectionState = "connected"
    /\ written # <<>>
    /\ lastWriteAt = now

\* ---------------------------------------------------------------------------
\* Properties of the aux send routing
\* ---------------------------------------------------------------------------
\* routes padded with false up to n entries
Padded(routes, n) ==
    [r \in 1..n |-> r <= Len(routes) /\ routes[r]]

\* C38: the bit-packed routing encoding and decoding are mirror images:
\* decoding, as an aux-send-routing reply, the payload setAuxRouting(auxId,
\* routes) builds returns routes, padded with false up to the maximum fader
\* count.
C38_RoutingRoundTrip ==
    codecOut.kind = "decoded"
        => codecOut.routes = Padded(codecIn.routes, codecIn.maxFaders)

====
